---- MODULE Spec2Model ----
(***************************************************************************)
(* Model of the extraction/validation core of src/tiktok_sayer.py:         *)
(* TikTokSayer._parse_count, TikTokSayer.validate_data and                 *)
(* TikTokSayer.get_profile_info.                                           *)
(*                                                                         *)
(* Representation.  A Python str is a sequence of one-character strings.   *)
(* A Python int is its decimal numeral: a sequence of digit characters     *)
(* without leading zeros, with a leading "-" when negative (the counts     *)
(* handled here exceed the range of TLC's machine integers).  A Python     *)
(* value is a record tagged by its type: [t |-> "none"], [t |-> "str"],    *)
(* [t |-> "int"], [t |-> "float"], [t |-> "bool"]; a raised exception is   *)
(* the record [t |-> "raise", e |-> <exception class>].  A dict is a       *)
(* function from its keys.                                                 *)
(*                                                                         *)
(* Logging.  self.log (a logger call and an insert into the log widget)    *)
(* changes nothing the functions read and is taken not to raise.           *)
(***************************************************************************)
EXTENDS Integers, Sequences, FiniteSets, TLC

VARIABLES
    call,           \* the call being made: function name and arguments
    ret,            \* what the call returned (or raised); Pending before
    username,       \* analyze_account: self.target_username.get().strip()
    api,            \* outcome of the API attempt, once made
    scrape,         \* outcome of the rendering/scrape step, once made
    pc,             \* position of the analysis run
    driver,         \* rendering session: "none", "open" or "quit"
    profile_data,   \* what get_profile_info returned; Pending before
    local,          \* the locals of the extractor call in progress
    clock,          \* time.time(), in seconds
    limiter,        \* the state of @limits: num_calls, last_reset
    issued,         \* the times of the requests.get calls still recent
    threads,        \* each caller of retry_request: its position
    selected,       \* the extractors ticked in the UI
    result_data,    \* self.result_data
    is_running      \* self.is_running

\* the state of the request helpers
netVars == <<clock, limiter, issued, threads>>

\* the state of the analysis run
runVars == <<selected, result_data, is_running>>

vars == <<call, ret, username, pc, api, scrape, driver, profile_data,
          local, clock, limiter, issued, threads,
          selected, result_data, is_running>>

---------------------------------------------------------------------------
(* Bounds of the model.                                                    *)

MaxLen == 3         \* longest enumerated argument of _parse_count
MaxNameLen == 2     \* longest enumerated argument of validate_data
MaxStats == 2       \* longest enumerated list of scraped statistics tokens

---------------------------------------------------------------------------
(* Characters and strings.                                                 *)

Digit == {"0", "1", "2", "3", "4", "5", "6", "7", "8", "9"}

Lower == {"a", "b", "c", "d", "e", "f", "g", "h", "i", "j", "k", "l", "m",
          "n", "o", "p", "q", "r", "s", "t", "u", "v", "w", "x", "y", "z"}

Upper == {"A", "B", "C", "D", "E", "F", "G", "H", "I", "J", "K", "L", "M",
          "N", "O", "P", "Q", "R", "S", "T", "U", "V", "W", "X", "Y", "Z"}

\* str.strip() removes leading and trailing whitespace
Whitespace == {" ", "\t", "\n"}

\* the Arabic-Indic digits U+0660..U+0669, written by code point
arabic_to_english ==
    [c \in {"u0660", "u0661", "u0662", "u0663", "u0664",
            "u0665", "u0666", "u0667", "u0668", "u0669"} |->
        CASE c = "u0660" -> "0" [] c = "u0661" -> "1" [] c = "u0662" -> "2"
          [] c = "u0663" -> "3" [] c = "u0664" -> "4" [] c = "u0665" -> "5"
          [] c = "u0666" -> "6" [] c = "u0667" -> "7" [] c = "u0668" -> "8"
          [] c = "u0669" -> "9"]

DigitVal(c) ==
    CASE c = "0" -> 0 [] c = "1" -> 1 [] c = "2" -> 2 [] c = "3" -> 3
      [] c = "4" -> 4 [] c = "5" -> 5 [] c = "6" -> 6 [] c = "7" -> 7
      [] c = "8" -> 8 [] c = "9" -> 9

SetMin(S) == CHOOSE x \in S : \A y \in S : x <= y

\* all strings over the alphabet A of length at most n
Strings(A, n) == UNION {[1..k -> A] : k \in 0..n}

\* c repeated n times
Rep(c, n) == [i \in 1..n |-> c]

\* str.strip()
Strip(s) ==
    LET keep == {i \in 1..Len(s) : s[i] \notin Whitespace}
    IN  IF keep = {} THEN <<>>
        ELSE SubSeq(s,
                    CHOOSE i \in keep : \A k \in 1..(i - 1) : s[k] \in Whitespace,
                    CHOOSE j \in keep : \A k \in (j + 1)..Len(s) : s[k] \in Whitespace)

\* str.replace(c, '') for a single character c
Remove(s, c) == SelectSeq(s, LAMBDA x : x # c)

\* str.upper() and str.lower(), character by character
UpperChar(c) ==
    CASE c = "a" -> "A" [] c = "b" -> "B" [] c = "c" -> "C" [] c = "d" -> "D"
      [] c = "e" -> "E" [] c = "f" -> "F" [] c = "g" -> "G" [] c = "h" -> "H"
      [] c = "i" -> "I" [] c = "j" -> "J" [] c = "k" -> "K" [] c = "l" -> "L"
      [] c = "m" -> "M" [] c = "n" -> "N" [] c = "o" -> "O" [] c = "p" -> "P"
      [] c = "q" -> "Q" [] c = "r" -> "R" [] c = "s" -> "S" [] c = "t" -> "T"
      [] c = "u" -> "U" [] c = "v" -> "V" [] c = "w" -> "W" [] c = "x" -> "X"
      [] c = "y" -> "Y" [] c = "z" -> "Z" [] OTHER -> c

LowerChar(c) ==
    CASE c = "A" -> "a" [] c = "B" -> "b" [] c = "C" -> "c" [] c = "D" -> "d"
      [] c = "E" -> "e" [] c = "F" -> "f" [] c = "G" -> "g" [] c = "H" -> "h"
      [] c = "I" -> "i" [] c = "J" -> "j" [] c = "K" -> "k" [] c = "L" -> "l"
      [] c = "M" -> "m" [] c = "N" -> "n" [] c = "O" -> "o" [] c = "P" -> "p"
      [] c = "Q" -> "q" [] c = "R" -> "r" [] c = "S" -> "s" [] c = "T" -> "t"
      [] c = "U" -> "u" [] c = "V" -> "v" [] c = "W" -> "w" [] c = "X" -> "x"
      [] c = "Y" -> "y" [] c = "Z" -> "z" [] OTHER -> c

ToUpper(s) == [i \in 1..Len(s) |-> UpperChar(s[i])]
ToLower(s) == [i \in 1..Len(s) |-> LowerChar(s[i])]

\* the Python test  w in s  on strings
Contains(s, w) ==
    \E i \in 0..(Len(s) - Len(w)) : SubSeq(s, i + 1, i + Len(w)) = w

\* str.startswith
StartsWith(s, w) == Len(s) >= Len(w) /\ SubSeq(s, 1, Len(w)) = w

---------------------------------------------------------------------------
(* Python values.                                                          *)

NoneV == [t |-> "none"]
StrV(s) == [t |-> "str", v |-> s]
IntV(d) == [t |-> "int", v |-> d]
Raise(e) == [t |-> "raise", e |-> e]
Pending == [t |-> "pending"]

\* the numeral of a natural number: leading zeros dropped
Canon(d) ==
    LET nz == {i \in 1..Len(d) : d[i] # "0"}
    IN  IF nz = {} THEN <<"0">> ELSE SubSeq(d, SetMin(nz), Len(d))

IsNeg(a) == Len(a) > 0 /\ a[1] = "-"
Mag(a) == IF IsNeg(a) THEN Tail(a) ELSE a

\* a < b on the numerals of two natural numbers
NatLess(a, b) ==
    \/ Len(a) < Len(b)
    \/ /\ Len(a) = Len(b)
       /\ \E i \in 1..Len(a) :
            /\ \A j \in 1..(i - 1) : a[j] = b[j]
            /\ DigitVal(a[i]) < DigitVal(b[i])

\* a < b on the numerals of two integers
IntLess(a, b) ==
    CASE IsNeg(a) /\ ~IsNeg(b) -> TRUE
      [] ~IsNeg(a) /\ IsNeg(b) -> FALSE
      [] IsNeg(a) /\ IsNeg(b) -> NatLess(Mag(b), Mag(a))
      [] OTHER -> NatLess(a, b)

Zero == <<"0">>

---------------------------------------------------------------------------
(* TikTokSayer._parse_count                                                *)

\* the characters of the pattern [\d.]
NumChar == Digit \cup {"."}

\* re.search(r'([\d.]+)', s): the first maximal run of digits and dots,
\* or the empty string when nothing matches
NumericPart(s) ==
    LET hits == {i \in 1..Len(s) : s[i] \in NumChar}
    IN  IF hits = {} THEN <<>>
        ELSE LET a == SetMin(hits)
                 stops == {j \in a..Len(s) : s[j] \notin NumChar}
                 b == IF stops = {} THEN Len(s) ELSE SetMin(stops) - 1
             IN  SubSeq(s, a, b)

\* float(t) accepts a run of digits and dots iff it holds at most one dot
\* and at least one digit; otherwise it raises ValueError
FloatOk(t) ==
    /\ Cardinality({i \in 1..Len(t) : t[i] = "."}) <= 1
    /\ \E i \in 1..Len(t) : t[i] \in Digit

DotAt(t) ==
    LET dots == {i \in 1..Len(t) : t[i] = "."}
    IN  IF dots = {} THEN Len(t) + 1 ELSE SetMin(dots)

IntPart(t) == SubSeq(t, 1, DotAt(t) - 1)
FracPart(t) == SubSeq(t, DotAt(t) + 1, Len(t))

\* A double holds magnitudes below 2^1024 - 2^970 = 1.79769313486231580793...e308;
\* a larger decimal converts to inf.  The numeral d (309 digits at that
\* magnitude) is compared on its first 18 digits.
DblMaxDigits == 309
DblMaxPrefix == <<"1", "7", "9", "7", "6", "9", "3", "1", "3", "4", "8", "6",
                  "2", "3", "1", "5", "8", "1">>

FloatIsInf(d) ==
    \/ Len(d) > DblMaxDigits
    \/ /\ Len(d) = DblMaxDigits
       /\ ~NatLess(SubSeq(d, 1, Len(DblMaxPrefix)), DblMaxPrefix)

\* int(float(t) * 10^k): the integer digits followed by the first k
\* fractional digits, the rest truncated.  float() raises ValueError on a
\* malformed token and int() raises OverflowError on inf.  The binary
\* rounding of the mantissa is not modelled: the decimal value is exact.
IntOfFloat(d) == IF FloatIsInf(d) THEN Raise("OverflowError") ELSE IntV(d)

ScaledInt(t, k) ==
    IF ~FloatOk(t) THEN Raise("ValueError")
    ELSE IntOfFloat(Canon(IntPart(t) \o SubSeq(FracPart(t) \o Rep("0", k), 1, k)))

\* the magnitude words tested with  any(k in count_str.upper() for k in [...])
\* (Arabic letters written by code point)
ThousandWords == {<<"K">>, <<"K", "+">>,
                  <<"u0623", "u0644", "u0641">>, <<"u0627", "u0644", "u0641">>}
MillionWords == {<<"M">>, <<"M", "+">>,
                 <<"u0645", "u0644", "u064A", "u0648", "u0646">>}
BillionWords == {<<"B">>, <<"B", "+">>,
                 <<"u0645", "u0644", "u064A", "u0627", "u0631">>}

\* except (ValueError, TypeError, AttributeError): return 0
ParseCaught == {"ValueError", "TypeError", "AttributeError"}

\* for ar, en in arabic_to_english.items(): count_str.replace(ar, en)
MapDigits(s) ==
    [i \in 1..Len(s) |->
        IF s[i] \in DOMAIN arabic_to_english THEN arabic_to_english[s[i]] ELSE s[i]]

\* the exponent of the magnitude: the first of the three tests that finds
\* one of its words anywhere in the upper-cased text decides
Magnitude(up) ==
    CASE \E w \in ThousandWords : Contains(up, w) -> 3
      [] \E w \in MillionWords : Contains(up, w) -> 6
      [] \E w \in BillionWords : Contains(up, w) -> 9
      [] OTHER -> 0

\* numeric_part = re.search(...); the value scaled, or 0 without a match
Scaled(numeric_part, k) ==
    IF numeric_part = <<>> THEN IntV(Zero) ELSE ScaledInt(numeric_part, k)

\* the try body, on the cleaned text
ParseCleaned(s) == Scaled(NumericPart(s), Magnitude(ToUpper(s)))

ParseCountBody(count_str) ==
    ParseCleaned(Remove(Remove(MapDigits(Strip(count_str)), ","), " "))

\* the except clause of _parse_count
ParseExcept(r) ==
    IF r.t = "raise" /\ r.e \in ParseCaught THEN IntV(Zero) ELSE r

parse_count(count_str) ==
    IF count_str = <<>> THEN IntV(Zero)
    ELSE ParseExcept(ParseCountBody(count_str))

---------------------------------------------------------------------------
(* TikTokSayer.validate_data                                               *)

\* A float is kept as its decimal expansion: sign, integer digits, fraction
\* digits; sp is "inf" or "nan" for the special values and "" otherwise.
FloatOf(neg, ip, fp, sp) ==
    [t |-> "float", neg |-> neg, ip |-> ip, fp |-> fp, sp |-> sp]

FracNonZero(f) == \E i \in 1..Len(f.fp) : f.fp[i] # "0"
FloatIsZero(f) == f.sp = "" /\ f.ip = Zero /\ ~FracNonZero(f)

\* f < m  and  m < f  for a float f and an int m
FloatLessInt(f, m) ==
    CASE f.sp = "nan" -> FALSE
      [] f.sp = "inf" -> f.neg
      [] ~f.neg /\ IsNeg(m) -> FALSE
      [] ~f.neg /\ ~IsNeg(m) -> NatLess(f.ip, m)
      [] f.neg /\ ~IsNeg(m) -> ~FloatIsZero(f) \/ m # Zero
      [] OTHER -> \/ NatLess(Mag(m), f.ip)
                  \/ (f.ip = Mag(m) /\ FracNonZero(f))

IntLessFloat(m, f) ==
    CASE f.sp = "nan" -> FALSE
      [] f.sp = "inf" -> ~f.neg
      [] ~f.neg /\ IsNeg(m) -> TRUE
      [] ~f.neg /\ ~IsNeg(m) -> \/ NatLess(m, f.ip)
                                \/ (f.ip = m /\ FracNonZero(f))
      [] f.neg /\ ~IsNeg(m) -> FALSE
      [] OTHER -> NatLess(f.ip, Mag(m))

SpecialFloatWords ==
    {<<"i", "n", "f">>, <<"i", "n", "f", "i", "n", "i", "t", "y">>,
     <<"n", "a", "n">>}

\* float(s) for a str: surrounding whitespace ignored, an optional sign, then
\* a decimal literal or one of inf, infinity, nan in any letter case; a larger
\* magnitude than a double holds gives inf; anything else raises ValueError.
\* Exponent notation and digit grouping with "_" are not modelled.
FloatOfDigits(neg, ip, fp) ==
    IF FloatIsInf(ip) THEN FloatOf(neg, Zero, <<>>, "inf")
    ELSE FloatOf(neg, ip, fp, "")

FloatOfBody(neg, body, lower) ==
    CASE lower \in SpecialFloatWords ->
            FloatOf(neg, Zero, <<>>,
                    IF lower = <<"n", "a", "n">> THEN "nan" ELSE "inf")
      [] (\A i \in 1..Len(body) : body[i] \in NumChar) /\ FloatOk(body) ->
            FloatOfDigits(neg, Canon(IntPart(body)), FracPart(body))
      [] OTHER -> Raise("ValueError")

FloatOfSigned(neg, body) == FloatOfBody(neg, body, ToLower(body))

FloatOfStripped(t) ==
    FloatOfSigned(Len(t) > 0 /\ t[1] = "-",
                  IF Len(t) > 0 /\ t[1] \in {"+", "-"} THEN Tail(t) ELSE t)

FloatOfStr(s) == FloatOfStripped(Strip(s))

\* float(n) for an int: OverflowError beyond the range of a double
FloatOfInt(n) ==
    IF FloatIsInf(Mag(n)) THEN Raise("OverflowError")
    ELSE FloatOf(IsNeg(n), Mag(n), <<>>, "")

\* urlparse(data).netloc: the text between "//" and the next "/", "?" or "#";
\* tabs and newlines are dropped first; an unmatched bracket raises ValueError
UrlSchemes == {<<"h", "t", "t", "p", ":", "/", "/">>,
               <<"h", "t", "t", "p", "s", ":", "/", "/">>}

NetlocChecked(netloc) ==
    IF Contains(netloc, <<"[">>) # Contains(netloc, <<"]">>)
    THEN Raise("ValueError") ELSE StrV(netloc)

NetlocOf(rest) ==
    LET stops == {i \in 1..Len(rest) : rest[i] \in {"/", "?", "#"}}
    IN  NetlocChecked(IF stops = {} THEN rest
                      ELSE SubSeq(rest, 1, SetMin(stops) - 1))

AfterScheme(u) ==
    NetlocOf(SubSeq(u, SetMin({i \in 1..Len(u) : u[i] = ":"}) + 3, Len(u)))

UrlNetloc(data) == AfterScheme(Remove(Remove(data, "\t"), "\n"))

\* re.match(r'^[a-zA-Z0-9._%+-]+@[a-zA-Z0-9.-]+\.[a-zA-Z]{2,}$', data)
EmailLocalChar == Lower \cup Upper \cup Digit \cup {".", "_", "%", "+", "-"}
EmailDomainChar == Lower \cup Upper \cup Digit \cup {".", "-"}

EmailMatch(data) ==
    \E a \in 2..Len(data) : \E d \in (a + 2)..Len(data) :
        /\ data[a] = "@"
        /\ data[d] = "."
        /\ \A i \in 1..(a - 1) : data[i] \in EmailLocalChar
        /\ \A i \in (a + 1)..(d - 1) : data[i] \in EmailDomainChar
        /\ Len(data) - d >= 2
        /\ \A i \in (d + 1)..Len(data) : data[i] \in Lower \cup Upper

\* re.match(r'^[a-zA-Z0-9_.]+$', data)
UsernameChar == Lower \cup Upper \cup Digit \cup {"_", "."}

UsernameMatch(data) ==
    /\ Len(data) >= 1
    /\ \A i \in 1..Len(data) : data[i] \in UsernameChar

\* StripAt without the removal: the leading '@' is kept
StripAtKept(data) == data

\* if data.startswith('@'): data = data[1:]
StripAt(data) == IF StartsWith(data, <<"@">>) THEN Tail(data) ELSE data

\* a Python list
ListV(s) == [t |-> "list", v |-> s]

\* str(data): a str is itself, an int its numeral
PyStr(data) == data.v

\* an empty string gives the default
NonEmpty(s, default_value) == IF s = <<>> THEN default_value ELSE StrV(s)

ValidateString(data, default_value) ==
    NonEmpty(Strip(PyStr(data)), default_value)

\* the min/max constraints of the int branch
ClampInt(n, min_value, max_value) ==
    CASE min_value # NoneV /\ IntLess(n, min_value.v) -> min_value
      [] max_value # NoneV /\ IntLess(max_value.v, n) -> max_value
      [] OTHER -> IntV(n)

ClampParsed(n, min_value, max_value) ==
    IF n.t = "raise" THEN n ELSE ClampInt(n.v, min_value, max_value)

ValidateInt(data, default_value, min_value, max_value) ==
    ClampParsed(IF data.t = "str" THEN parse_count(data.v) ELSE IntV(data.v),
                min_value, max_value)

\* the min/max constraints of the float branch
ClampFloat(f, min_value, max_value) ==
    CASE f.t = "raise" -> f
      [] min_value # NoneV /\ FloatLessInt(f, min_value.v) -> min_value
      [] max_value # NoneV /\ IntLessFloat(max_value.v, f) -> max_value
      [] OTHER -> f

ValidateFloat(data, default_value, min_value, max_value) ==
    ClampFloat(IF data.t = "str" THEN FloatOfStr(Remove(data.v, ","))
               ELSE FloatOfInt(data.v),
               min_value, max_value)

\* the url branch on the stripped text
UrlNetlocOk(netloc) == netloc.t # "raise" /\ netloc.v # <<>>

UrlStripped(s, default_value) ==
    CASE s = <<>> -> default_value
      [] ~\E w \in UrlSchemes : StartsWith(s, w) -> default_value
      [] ~UrlNetlocOk(UrlNetloc(s)) -> default_value
      [] OTHER -> StrV(s)

ValidateUrl(data, default_value) ==
    IF data.t # "str" THEN default_value
    ELSE UrlStripped(Strip(data.v), default_value)

\* the email branch on the stripped text
EmailStripped(s, default_value) ==
    CASE s = <<>> -> default_value
      [] ~EmailMatch(s) -> default_value
      [] OTHER -> StrV(s)

ValidateEmail(data, default_value) ==
    IF data.t # "str" THEN default_value
    ELSE EmailStripped(Strip(data.v), default_value)

\* the username branch on the text stripped of its leading '@'
UsernameChecked(rest, default_value) ==
    IF UsernameMatch(rest) THEN StrV(rest) ELSE default_value

UsernameStripped(s, default_value) ==
    IF s = <<>> THEN default_value ELSE UsernameChecked(StripAt(s), default_value)

ValidateUsername(data, default_value) ==
    IF data.t # "str" THEN default_value
    ELSE UsernameStripped(Strip(data.v), default_value)

\* the body of the try: one branch per data_type, unknown types last
ValidateBody(data, data_type, default_value, min_value, max_value) ==
    CASE data_type = "string" -> ValidateString(data, default_value)
      [] data_type = "int" ->
            ValidateInt(data, default_value, min_value, max_value)
      [] data_type = "float" ->
            ValidateFloat(data, default_value, min_value, max_value)
      [] data_type = "url" -> ValidateUrl(data, default_value)
      [] data_type = "email" -> ValidateEmail(data, default_value)
      [] data_type = "username" -> ValidateUsername(data, default_value)
      [] OTHER -> default_value

\* ValidateExcept without the except clause: the exception goes on
ValidateExceptMissing(r, default_value) == r

\* except Exception: return default_value
ValidateExcept(r, default_value) ==
    IF r.t = "raise" THEN default_value ELSE r

validate_data(data, data_type, default_value, min_value, max_value) ==
    IF data = NoneV THEN default_value
    ELSE ValidateExcept(ValidateBody(data, data_type, default_value,
                                     min_value, max_value),
                        default_value)

---------------------------------------------------------------------------
(* TikTokSayer.get_profile_info                                            *)

BoolV(b) == [t |-> "bool", v |-> b]

\* the sentinel handle
Unknown == <<"u", "n", "k", "n", "o", "w", "n">>

\* dict.get(k, default)
Get(d, k, default) == IF k \in DOMAIN d THEN d[k] ELSE default

\* the dict {}
EmptyDict == [k \in {} |-> NoneV]

\* the values of datetime.now().strftime(...)
Today == StrV(<<"%Y-%m-%d">>)
Now == StrV(<<"%Y-%m-%d %H:%M:%S">>)

\* the record built from the API payload: user_info['user'], user_info['stats']
ApiRecord(name, user, stats) ==
    ("username" :> StrV(name))
    @@ ("display_name" :> Get(user, "nickname", StrV(name)))
    @@ ("bio" :> Get(user, "signature", StrV(<<>>)))
    @@ ("follower_count" :> Get(stats, "followerCount", IntV(Zero)))
    @@ ("following_count" :> Get(stats, "followingCount", IntV(Zero)))
    @@ ("likes" :> Get(stats, "heartCount", IntV(Zero)))
    @@ ("video_count" :> Get(stats, "videoCount", IntV(Zero)))
    @@ ("verified" :> Get(user, "verified", BoolV(FALSE)))
    @@ ("private" :> Get(user, "privateAccount", BoolV(FALSE)))
    @@ ("join_date" :> Today)

\* the keywords that classify a statistics token (Arabic by code point)
FollowerWords == {<<"f", "o", "l", "l", "o", "w", "e", "r">>, <<"f", "a", "n", "s">>,
                  <<"u0645", "u062A", "u0627", "u0628", "u0639">>,
                  <<"u0645", "u0634", "u062A", "u0631", "u0643">>}
FollowingWords == {<<"f", "o", "l", "l", "o", "w", "i", "n", "g">>,
                   <<"u0645", "u062A", "u0627", "u0628", "u064E", "u0639">>,
                   <<"u064A", "u062A", "u0627", "u0628", "u0639">>}
LikeWords == {<<"l", "i", "k", "e">>, <<"u0625", "u0639", "u062C", "u0627", "u0628">>}
VideoWords == {<<"v", "i", "d", "e", "o">>, <<"u0641", "u064A", "u062F", "u064A", "u0648">>}

\* any(keyword in text.lower() for keyword in words), lower being text.lower()
HasWord(lower, words) == \E w \in words : Contains(lower, w)

\* the ceilings of the scrape path, as numerals
SuspiciousFollowers == <<"5">> \o Rep("0", 8)
MaxFollowers == <<"1">> \o Rep("0", 9)
MaxFollowing == <<"1">> \o Rep("0", 4)
MaxLikes == <<"1">> \o Rep("0", 10)
MaxVideos == <<"1">> \o Rep("0", 4)

ZeroCounts == [follower_count |-> Zero, following_count |-> Zero,
               likes |-> Zero, video_count |-> Zero]

\* the counter a token names: the first keyword test that succeeds decides
StatKind(lower) ==
    CASE HasWord(lower, FollowerWords) -> "follower_count"
      [] HasWord(lower, FollowingWords) -> "following_count"
      [] HasWord(lower, LikeWords) -> "likes"
      [] HasWord(lower, VideoWords) -> "video_count"
      [] OTHER -> "none"

\* the assignment of one counter; n is _parse_count(value), and an exception
\* it raised is caught by the loop body, which goes on to the next token
StatsAssign(acc, kind, n) ==
    CASE kind = "none" \/ n.t = "raise" -> acc
      [] kind = "follower_count" ->
            [acc EXCEPT !.follower_count =
                IF IntLess(SuspiciousFollowers, n.v) THEN Zero ELSE n.v]
      [] OTHER -> [acc EXCEPT ![kind] = n.v]

\* one iteration of  for i, text in enumerate(stats_text):  the token after
\* a keyword token is its value, "0" when there is none
StatsStep(stats_text, i, acc) ==
    StatsAssign(acc, StatKind(ToLower(stats_text[i])),
                parse_count(IF i + 1 <= Len(stats_text)
                            THEN stats_text[i + 1] ELSE Zero))

RECURSIVE StatsLoop(_, _, _)
StatsLoop(stats_text, i, acc) ==
    IF i > Len(stats_text) THEN acc
    ELSE StatsLoop(stats_text, i + 1, StatsStep(stats_text, i, acc))

\* element.text.strip() of an element that may be missing (None)
ElemText(elem) == IF elem = NoneV THEN <<>> ELSE Strip(elem.v)

\* the record of the scrape path, every field through validate_data
\* display_name_elem.text.strip() when there is one, else the username
DisplayName(text, name) == IF text # <<>> THEN text ELSE name

\* the validate_data call made for each field of the scrape record:
\* <<data, data_type, default_value, min_value, max_value>>
ScrapeFields(name, valid_name, page, counts) ==
    [display_name |->
        <<StrV(DisplayName(ElemText(page.display_name_elem), name)), "string",
          valid_name, NoneV, NoneV>>,
     bio |-> <<StrV(ElemText(page.bio_elem)), "string", StrV(<<>>), NoneV, NoneV>>,
     follower_count |-> <<IntV(counts.follower_count), "int", IntV(Zero),
                          IntV(Zero), IntV(MaxFollowers)>>,
     following_count |-> <<IntV(counts.following_count), "int", IntV(Zero),
                           IntV(Zero), IntV(MaxFollowing)>>,
     likes |-> <<IntV(counts.likes), "int", IntV(Zero), IntV(Zero), IntV(MaxLikes)>>,
     video_count |-> <<IntV(counts.video_count), "int", IntV(Zero),
                       IntV(Zero), IntV(MaxVideos)>>]

Validated(fields) ==
    [k \in DOMAIN fields |->
        validate_data(fields[k][1], fields[k][2], fields[k][3],
                      fields[k][4], fields[k][5])]

ScrapeRecordOf(valid_name, fields, page) ==
    ("username" :> valid_name)
    @@ Validated(fields)
    @@ ("verified" :> BoolV(page.verified))
    @@ ("private" :> BoolV(page.private))
    @@ ("join_date" :> Today)
    @@ ("data_source" :> "web_scraping")
    @@ ("extraction_timestamp" :> Now)

ScrapeValidated(name, valid_name, page) ==
    ScrapeRecordOf(valid_name,
                   ScrapeFields(name, valid_name, page,
                                StatsLoop(page.stats_text, 1, ZeroCounts)),
                   page)

\* username = self.validate_data(username, 'username', default_value="unknown")
ValidUsername(name) ==
    validate_data(StrV(name), "username", StrV(Unknown), NoneV, NoneV)

\* the record of the scrape path, every field through validate_data
ScrapeRecord(name, page) == ScrapeValidated(name, ValidUsername(name), page)

\* the slice [:200] of the error string, and the default of an empty one
ErrorLimit == 200
UnknownError == <<"U", "n", "k", "n", "o", "w", "n", " ", "e", "r", "r", "o", "r">>

Truncate(s, n) == SubSeq(s, 1, IF Len(s) < n THEN Len(s) ELSE n)

\* the fields of the record of the outer except clause
FallbackOf(valid_name, error) ==
        ("username" :> valid_name)
        @@ ("display_name" :> valid_name)
        @@ ("bio" :> StrV(<<>>))
        @@ ("follower_count" :> IntV(Zero))
        @@ ("following_count" :> IntV(Zero))
        @@ ("likes" :> IntV(Zero))
        @@ ("video_count" :> IntV(Zero))
        @@ ("verified" :> BoolV(FALSE))
        @@ ("private" :> BoolV(FALSE))
        @@ ("join_date" :> Today)
        @@ ("data_source" :> "fallback")
        @@ ("extraction_timestamp" :> Now)
        @@ ("error" :> StrV(Truncate(error.v, ErrorLimit)))

\* the record of the outer except clause; message is str(e)
\* 'error': self.validate_data(str(e), 'string', default_value="Unknown error")
ValidError(message) ==
    validate_data(StrV(message), "string", StrV(UnknownError), NoneV, NoneV)

FallbackRecord(name, message) == FallbackOf(ValidUsername(name), ValidError(message))

---------------------------------------------------------------------------
(* The pure functions, applied to bounded sets of arguments.               *)

\* the analysis run is not started in the specifications of the pure functions
NoRun ==
    /\ username = <<>>
    /\ pc = "idle"
    /\ api = Pending
    /\ scrape = Pending
    /\ driver = "none"
    /\ profile_data = Pending
    /\ local = Pending
    /\ selected = {}
    /\ result_data = Pending
    /\ is_running = FALSE

\* no request is made in the specifications without the network
NoNet ==
    /\ clock = 0
    /\ limiter = Pending
    /\ issued = <<>>
    /\ threads = <<>>

ParseAlphabet == {"0", "1", "5", ".", ",", " ", "K", "m", "B", "x", "+", "u0665"}

ParseSamples ==
    {<<"1", ".", "2", "K">>,
     <<"3", "M">>,
     <<"u0665", "u0660", "u0660">>,
     <<"b", "a", "d">>,
     <<"1", "2", ",", "3", "4", "5">>,
     <<"5", " ", "l", "i", "k", "e", "s">>,
     <<"1", ".", "2", ".", "3">>,
     <<"1", ".", "2", "5", "k">>,
     <<"2", ".", "5", "B">>,
     <<"2", "u0623", "u0644", "u0641">>,
     <<"3", "u0645", "u0644", "u064A", "u0648", "u0646">>,
     <<"4", "u0645", "u0644", "u064A", "u0627", "u0631">>}

\* digit runs at the limit of what a double holds
LongRuns ==
    {Rep("9", DblMaxDigits - 1), Rep("1", DblMaxDigits), Rep("9", DblMaxDigits),
     Rep("9", DblMaxDigits - 3) \o <<"K">>}

ParseInputs == Strings(ParseAlphabet, MaxLen) \cup ParseSamples \cup LongRuns

InitParse ==
    /\ call \in {[fn |-> "_parse_count", count_str |-> s] : s \in ParseInputs}
    /\ ret = Pending
    /\ NoRun
    /\ NoNet

ParseCount ==
    /\ call.fn = "_parse_count"
    /\ ret = Pending
    /\ ret' = parse_count(call.count_str)
    /\ UNCHANGED <<call, username, pc, api, scrape, driver, profile_data, local, netVars, runVars>>

NextParse == ParseCount

SpecParse == InitParse /\ [][NextParse]_vars

NameAlphabet == {"a", "Z", "1", "_", "@", " ", "!", "."}

ValidateSamples ==
    {<<"@", "J", "o", "h", "n", "_", "D", "o", "e">>,
     <<"b", "a", "d", " ", "u", "s", "e", "r", "!">>,
     <<" ", "j", "o", "e", " ">>,
     <<"1", ".", "2", "K">>,
     <<"1", ".", "5">>,
     <<"-", "2">>,
     <<"n", "a", "n">>,
     <<"x", "1", "y">>,
     <<"1", "5", "0">>,
     <<"h", "t", "t", "p", ":", "/", "/", "a", ".", "b", "/", "x">>,
     <<"h", "t", "t", "p", ":", "/", "/">>,
     <<"h", "t", "t", "p", "s", ":", "/", "/", "[", "a">>,
     <<"f", "t", "p", ":", "/", "/", "a">>,
     <<"a", "@", "b", ".", "c", "d">>,
     <<"a", "@", "b">>,
     <<"j", "o", "e">>,
     Rep("9", DblMaxDigits)}

IntData == {<<"-", "1">>, <<"0">>, <<"3">>, <<"1", "0", "0">>, <<"1", "5", "0">>}

ValidateData ==
    {NoneV} \cup {IntV(n) : n \in IntData}
            \cup {StrV(s) : s \in Strings(NameAlphabet, MaxNameLen) \cup ValidateSamples}

\* "date" stands for a data_type validate_data does not know
DataTypes == {"string", "int", "float", "url", "email", "username", "date"}

Defaults == {NoneV, StrV(Unknown)}

\* pairs <<min_value, max_value>>
MinMax == {<<NoneV, NoneV>>, <<IntV(Zero), IntV(<<"1", "0", "0">>)>>,
           <<IntV(<<"3">>), IntV(<<"3">>)>>, <<NoneV, IntV(<<"1", "0", "0">>)>>}

ValidateCalls ==
    {[fn |-> "validate_data", data |-> d, data_type |-> ty, default_value |-> df,
      min_value |-> b[1], max_value |-> b[2]] :
        d \in ValidateData, ty \in DataTypes, df \in Defaults, b \in MinMax}

InitValidate ==
    /\ call \in ValidateCalls
    /\ ret = Pending
    /\ NoRun
    /\ NoNet

ValidateData_ ==
    /\ call.fn = "validate_data"
    /\ ret = Pending
    /\ ret' = validate_data(call.data, call.data_type, call.default_value,
                            call.min_value, call.max_value)
    /\ UNCHANGED <<call, username, pc, api, scrape, driver, profile_data, local, netVars, runVars>>

NextValidate == ValidateData_

SpecValidate == InitValidate /\ [][NextValidate]_vars

---------------------------------------------------------------------------
(* One call of get_profile_info, as analyze_account makes it.              *)

\* the handle typed by the user, as  self.target_username.get().strip()
\* leaves it: trimmed, and not empty (start_analysis refuses an empty one)
Usernames == {<<"a", "b">>, <<"@", "a", "b">>, <<"a", "!", "b">>, <<"a", " ", "b">>, <<"@">>, <<"A", "_", "1", ".">>}

\* JSON values of the API payload
Billion2 == <<"2">> \o Rep("0", 9)
StatKeys == {"followerCount", "followingCount", "heartCount", "videoCount"}
StatValues == {IntV(<<"5">>), IntV(<<"-", "1">>), IntV(Billion2)}
StatsDicts == UNION {[K -> StatValues] : K \in SUBSET StatKeys}

UserDicts ==
    {EmptyDict,
     ("nickname" :> StrV(<<"A", "l">>)),
     ("nickname" :> StrV(<<"A", "l">>)) @@ ("signature" :> StrV(<<"h", "i">>)),
     ("nickname" :> StrV(<<"A", "l">>)) @@ ("signature" :> StrV(<<"h", "i">>))
        @@ ("verified" :> BoolV(TRUE)) @@ ("privateAccount" :> BoolV(TRUE))}

\* What the API attempt can come to.  "raise": retry_request raised (network
\* error or HTTP error status, after its retries); "status": a response whose
\* status_code is not 200; "json_error": response.json() raised;
\* "no_userinfo": a body without 'userInfo'; "bad_shape": a body whose
\* userInfo or user is no dict (AttributeError); "payload": a well-formed body.
ApiFailures == {[kind |-> k] : k \in {"raise", "status", "json_error",
                                      "no_userinfo", "bad_shape"}}
ApiPayloads == {[kind |-> "payload", user |-> u, stats |-> s] :
                    u \in UserDicts, s \in StatsDicts}
ApiOutcomes == ApiFailures \cup ApiPayloads

\* statistics tokens as scraped: stripped and not empty
StatTokens ==
    {<<"F", "o", "l", "l", "o", "w", "e", "r", "s">>,
     <<"F", "o", "l", "l", "o", "w", "i", "n", "g">>,
     <<"L", "i", "k", "e", "s">>,
     <<"V", "i", "d", "e", "o", "s">>,
     <<"1", ".", "2", "K">>,
     <<"6", "0", "0", "M">>,
     <<"2", "0", "B">>}

StatsTexts == UNION {[1..n -> StatTokens] : n \in 0..MaxStats}

\* str(e) of the exception that reaches the outer except clause
LongMessage == 250
Messages == {<<>>, Rep("e", LongMessage)}

\* What the scrape step can come to.  "setup_raises": setup_webdriver()
\* raised; "get_raises": driver.get raised; "wait_timeout": the page-ready
\* wait raised TimeoutException; "parse_raises": a later statement of the
\* inner try raised; "parsed": the inner try ran to its end.  quit_raises:
\* driver.quit() raised in the finally clause.
ScrapePages ==
    {[kind |-> "parsed", display_name_elem |-> d, bio_elem |-> b,
      stats_text |-> st, verified |-> v, private |-> FALSE,
      quit_raises |-> q, message |-> Rep("e", LongMessage)] :
        d \in {NoneV, StrV(<<"A", "l", " ">>)}, b \in {NoneV, StrV(<<"h", "i">>)},
        st \in StatsTexts, v \in BOOLEAN, q \in BOOLEAN}

ScrapeFailures ==
    {[kind |-> k, quit_raises |-> FALSE, message |-> m] :
        k \in {"setup_raises", "get_raises"}, m \in Messages}
    \cup {[kind |-> k, quit_raises |-> q, message |-> m] :
            k \in {"wait_timeout", "parse_raises"}, q \in BOOLEAN, m \in Messages}

ScrapeOutcomes == ScrapePages \cup ScrapeFailures

Init ==
    /\ call = [fn |-> "get_profile_info"]
    /\ ret = Pending
    /\ username \in Usernames
    /\ pc = "api"
    /\ api = Pending
    /\ scrape = Pending
    /\ driver = "none"
    /\ profile_data = Pending
    /\ local = Pending
    /\ selected = {}
    /\ result_data = Pending
    /\ is_running = TRUE
    /\ NoNet

\* ApiAttempt without the fall-through: a failed attempt returns {}
ApiAttemptGivesUp ==
    /\ pc = "api"
    /\ \E o \in ApiOutcomes :
        /\ api' = o
        /\ profile_data' = IF o.kind = "payload"
                           THEN ApiRecord(username, o.user, o.stats)
                           ELSE EmptyDict
        /\ pc' = "returned"
    /\ UNCHANGED <<call, ret, username, scrape, driver, local, netVars, runVars>>

\* the API attempt: a well-formed payload is mapped into the record and
\* returned; anything else falls through to the scrape step
ApiAttempt ==
    /\ pc = "api"
    /\ \E o \in ApiOutcomes :
        /\ api' = o
        /\ IF o.kind = "payload"
           THEN /\ profile_data' = ApiRecord(username, o.user, o.stats)
                /\ pc' = "returned"
           ELSE /\ profile_data' = profile_data
                /\ pc' = "scrape"
    /\ UNCHANGED <<call, ret, username, scrape, driver, local, netVars, runVars>>

\* what the scrape step leaves in profile_data: {} stays when the inner try
\* raised (its except clause only logs); the outer except clause builds the
\* fallback record when setup_webdriver, driver.get or driver.quit raised
ScrapeResult(name, o) ==
    CASE o.kind \in {"setup_raises", "get_raises"} ->
            FallbackRecord(name, o.message)
      [] o.quit_raises -> FallbackRecord(name, o.message)
      [] o.kind = "parsed" -> ScrapeRecord(name, o)
      [] OTHER -> EmptyDict

\* the rendering session after the scrape step
DriverAfter(o) ==
    CASE o.kind = "setup_raises" -> "none"
      [] o.kind = "get_raises" -> "open"
      [] o.quit_raises -> "open"
      [] OTHER -> "quit"

ScrapeAttempt ==
    /\ pc = "scrape"
    /\ \E o \in ScrapeOutcomes :
        /\ scrape' = o
        /\ profile_data' = ScrapeResult(username, o)
        /\ driver' = DriverAfter(o)
    /\ pc' = "returned"
    /\ UNCHANGED <<call, ret, username, api, local, netVars, runVars>>

Next == ApiAttempt \/ ScrapeAttempt

Spec == Init /\ [][Next]_vars

---------------------------------------------------------------------------
(* Claims about get_profile_info (under Spec).                             *)

Returned == pc = "returned"

CountKeys == {"follower_count", "following_count", "likes", "video_count"}

\* the tags of the three paths, as the code spells them
SourceTags == {"api", "web_scraping", "fallback"}

\* C1: every call returns exactly one record whose data_source is one of
\* api, scrape, fallback, whatever the API attempt and the scrape step do.
AlwaysOneTaggedRecord ==
    Returned => /\ "data_source" \in DOMAIN profile_data
                /\ profile_data["data_source"] \in SourceTags

CountMax(k) ==
    CASE k = "follower_count" -> MaxFollowers
      [] k = "following_count" -> MaxFollowing
      [] k = "likes" -> MaxLikes
      [] k = "video_count" -> MaxVideos

InBounds(v, k) ==
    /\ v.t = "int"
    /\ ~IsNeg(v.v)
    /\ ~IntLess(CountMax(k), v.v)

\* C2: on all three paths the four counts are present and each lies in
\* [0, max] for its configured maximum.
CountsWithinBounds ==
    Returned => \A k \in CountKeys :
                    /\ k \in DOMAIN profile_data
                    /\ InBounds(profile_data[k], k)

ScrapeRaisedEarly ==
    /\ Returned
    /\ scrape # Pending
    /\ scrape.kind \in {"setup_raises", "get_raises", "wait_timeout", "parse_raises"}

\* C3: if the scrape step raises before a record has been produced, the
\* call returns a record with the four counts 0, data_source = fallback and
\* an error string of at most 200 characters.
ScrapeFailureGivesFallback ==
    ScrapeRaisedEarly =>
        /\ CountKeys \cup {"data_source", "error"} \subseteq DOMAIN profile_data
        /\ \A k \in CountKeys : profile_data[k] = IntV(Zero)
        /\ profile_data["data_source"] = "fallback"
        /\ Len(profile_data["error"].v) <= ErrorLimit

ApiPayloadReturned == Returned /\ api.kind = "payload"

Mirrors(field, dict, key) ==
    key \in DOMAIN dict =>
        field \in DOMAIN profile_data /\ profile_data[field] = dict[key]

\* C4: on a well-formed payload the record's display name, bio and four
\* counts equal the payload's fields and its data_source is api.
ApiRecordMirrorsPayload ==
    ApiPayloadReturned =>
        /\ Mirrors("display_name", api.user, "nickname")
        /\ Mirrors("bio", api.user, "signature")
        /\ Mirrors("follower_count", api.stats, "followerCount")
        /\ Mirrors("following_count", api.stats, "followingCount")
        /\ Mirrors("likes", api.stats, "heartCount")
        /\ Mirrors("video_count", api.stats, "videoCount")
        /\ "data_source" \in DOMAIN profile_data
        /\ profile_data["data_source"] = "api"

\* C5: on every path the handle of the record is present and is either a
\* string without leading '@' matching [A-Za-z0-9_.]+ or "unknown".
HandleCanonical ==
    Returned =>
        /\ "username" \in DOMAIN profile_data
        /\ profile_data["username"].t = "str"
        /\ \/ profile_data["username"].v = Unknown
           \/ UsernameMatch(profile_data["username"].v)

\* what the caller gets is a dict, no exception
ReturnsDict == "t" \notin DOMAIN profile_data

\* C23: the API is attempted first; the scrape step and its rendering
\* session start only after an API attempt that gave no record; every
\* failure of the API attempt is followed by the scrape step, and the
\* caller gets a record, not an error.
ApiFirstThenScrape ==
    /\ pc \in {"scrape", "returned"} => api # Pending
    /\ scrape # Pending \/ driver # "none" \/ pc = "scrape" => api \in ApiFailures
    /\ Returned =>
          /\ ReturnsDict
          /\ api \in ApiFailures => scrape # Pending
          /\ api \in ApiPayloads => scrape = Pending /\ driver = "none"

ApiFirstThenScrapeWitness ==
    /\ Returned
    /\ api.kind = "raise"
    /\ scrape.kind = "parsed"
    /\ driver = "quit"
    /\ "username" \in DOMAIN profile_data

---------------------------------------------------------------------------
(* Claims about _parse_count (under SpecParse).                            *)

ParseReturned == call.fn = "_parse_count" /\ ret # Pending

\* C6: _parse_count is total: for any string it returns a non-negative
\* integer and never raises.
ParseCountTotal ==
    ParseReturned => (ret.t = "int" /\ ~IsNeg(ret.v))

\* The reference of C7.  The text is cleaned as the code cleans it (strip,
\* Arabic-Indic digits to ASCII, separators and spaces removed); the numeric
\* token is the first run of digits and dots; the magnitude is that of the
\* word that follows the token directly, 1 when none does.
RefClean(s) ==
    LET s1 == Strip(s)
        s2 == [i \in 1..Len(s1) |->
                 IF s1[i] \in DOMAIN arabic_to_english
                 THEN arabic_to_english[s1[i]] ELSE s1[i]]
    IN  Remove(Remove(s2, ","), " ")

RefAfterToken(s) ==
    LET hits == {i \in 1..Len(s) : s[i] \in NumChar}
        a == SetMin(hits)
        stops == {j \in a..Len(s) : s[j] \notin NumChar}
    IN  IF hits = {} \/ stops = {} THEN <<>>
        ELSE SubSeq(s, SetMin(stops), Len(s))

RefMagnitude(s) ==
    LET after == ToUpper(RefAfterToken(s))
    IN  CASE \E w \in ThousandWords : StartsWith(after, w) -> 3
          [] \E w \in MillionWords : StartsWith(after, w) -> 6
          [] \E w \in BillionWords : StartsWith(after, w) -> 9
          [] OTHER -> 0

RefParseCount(s) ==
    LET c == RefClean(s)
        tok == NumericPart(c)
        k == RefMagnitude(c)
    IN  IF tok = <<>> \/ ~FloatOk(tok) THEN IntV(Zero)
        ELSE IntV(Canon(IntPart(tok) \o SubSeq(FracPart(tok) \o Rep("0", k), 1, k)))

\* C7: for every input text _parse_count equals the reference: leading
\* numeric token times the magnitude of the suffix that follows it (1 when
\* there is none), truncated to an integer.
ParseCountMatchesReference ==
    ParseReturned => ret = RefParseCount(call.count_str)

---------------------------------------------------------------------------
(* Claims about validate_data (under SpecValidate).                        *)

ValidateReturned == call.fn = "validate_data" /\ ret # Pending

\* one leading '@' removed, as C8 words it
StripAtRef(s) == IF Len(s) > 0 /\ s[1] = "@" THEN SubSeq(s, 2, Len(s)) ELSE s

UsernameCall ==
    ValidateReturned /\ call.data_type = "username" /\ call.data.t = "str"

\* C8 as stated: one leading '@' is stripped from the value and the
\* remainder is returned iff it matches [A-Za-z0-9_.]+, else the default.
UsernameStripsAtOnly ==
    UsernameCall =>
        ret = IF UsernameMatch(StripAtRef(call.data.v))
              THEN StrV(StripAtRef(call.data.v)) ELSE call.default_value

\* C8, amended: surrounding whitespace is trimmed first; then one leading
\* '@' is stripped and the remainder is returned iff it matches
\* [A-Za-z0-9_.]+, else the default ("@John_Doe" gives "John_Doe", and
\* "bad user!" gives the default).
UsernameTrimsThenStripsAt ==
    UsernameCall =>
        LET rest == StripAtRef(Strip(call.data.v))
        IN  /\ ret = IF UsernameMatch(rest) THEN StrV(rest)
                     ELSE call.default_value
            /\ call.data.v = <<"@", "J", "o", "h", "n", "_", "D", "o", "e">> => ret = StrV(<<"J", "o", "h", "n", "_", "D", "o", "e">>)
            /\ call.data.v = <<"b", "a", "d", " ", "u", "s", "e", "r", "!">> => ret = call.default_value

UsernameWitness ==
    /\ UsernameCall
    /\ call.data.v = <<"@", "J", "o", "h", "n", "_", "D", "o", "e">>
    /\ call.default_value = StrV(Unknown)
    /\ ret = StrV(<<"J", "o", "h", "n", "_", "D", "o", "e">>)

\* a numeric argument: an int, or a str that is a plain run of ASCII digits
IntArgument ==
    \/ call.data.t = "int"
    \/ /\ call.data.t = "str"
       /\ call.data.v # <<>>
       /\ \A i \in 1..Len(call.data.v) : call.data.v[i] \in Digit

IntArgumentValue ==
    IF call.data.t = "int" THEN call.data.v ELSE Canon(call.data.v)

IntCall ==
    /\ ValidateReturned
    /\ call.data_type = "int"
    /\ call.data # NoneV
    /\ IntArgument
    /\ call.min_value # NoneV
    /\ call.max_value # NoneV
    /\ ~IntLess(call.max_value.v, call.min_value.v)

\* C9: kind 'int' with min <= max clamps: for every numeric argument the
\* result is min below min, max above max and the value itself otherwise,
\* never the default.
IntClamps ==
    IntCall =>
        ret = CASE IntLess(IntArgumentValue, call.min_value.v) -> call.min_value
                [] IntLess(call.max_value.v, IntArgumentValue) -> call.max_value
                [] OTHER -> IntV(IntArgumentValue)

\* a str without any digit, ASCII or Arabic-Indic
NonNumeric(s) ==
    \A i \in 1..Len(s) : s[i] \notin Digit \cup DOMAIN arabic_to_english

NonNumericIntCall ==
    /\ ValidateReturned
    /\ call.data_type = "int"
    /\ call.data.t = "str"
    /\ NonNumeric(call.data.v)

\* C10 as stated: validate_data never raises, and a value that fails to parse
\* for its kind (a non-numeric string validated as 'int') yields the default.
ValidateUnparsableGivesDefault ==
    /\ ValidateReturned => ret.t # "raise"
    /\ (NonNumericIntCall /\ Strip(call.data.v) # <<>>) => ret = call.default_value

\* 0 clamped to [min_value, max_value]
ZeroClamped ==
    CASE call.min_value # NoneV /\ IntLess(Zero, call.min_value.v) -> call.min_value
      [] call.max_value # NoneV /\ IntLess(call.max_value.v, Zero) -> call.max_value
      [] OTHER -> IntV(Zero)

\* the conversions of the int and float branches that raise
ConversionRaises ==
    /\ call.data.t = "str"
    /\ \/ call.data_type = "int" /\ parse_count(call.data.v).t = "raise"
       \/ call.data_type = "float"
            /\ FloatOfStr(Remove(call.data.v, ",")).t = "raise"

\* C10, amended: validate_data never raises for any value and kind; an
\* unknown kind, a conversion that raises, and a str that fails the format
\* of 'email' or 'username' yield the default; a non-numeric string
\* validated as 'int' is read as 0 and yields 0 clamped to [min, max].
ValidateNeverRaises ==
    ValidateReturned =>
        /\ ret.t # "raise"
        /\ call.data_type = "date" => ret = call.default_value
        /\ (call.data # NoneV /\ ConversionRaises) => ret = call.default_value
        /\ (call.data.t = "str" /\ call.data_type = "email"
                /\ ~EmailMatch(Strip(call.data.v))) => ret = call.default_value
        /\ (call.data.t = "str" /\ call.data_type = "username"
                /\ \E i \in 1..Len(call.data.v) :
                      call.data.v[i] \notin UsernameChar \cup Whitespace \cup {"@"})
             => ret = call.default_value
        /\ NonNumericIntCall => ret = ZeroClamped

ValidateNeverRaisesWitness ==
    /\ ValidateReturned
    /\ call.data_type = "int"
    /\ call.data = StrV(Rep("9", DblMaxDigits))
    /\ call.default_value = StrV(Unknown)
    /\ ret = StrV(Unknown)

---------------------------------------------------------------------------
(* rate_limited_request and retry_request.                                 *)
(*                                                                         *)
(* The decorators are those of the packages ratelimit and retrying.        *)
(* @limits(calls, period) keeps num_calls and last_reset behind a lock:    *)
(* a call made when period - (now - last_reset) <= 0 resets both, every    *)
(* call adds one to num_calls, and a call that finds num_calls above       *)
(* calls raises RateLimitException(period_remaining).  @sleep_and_retry    *)
(* catches that exception, sleeps period_remaining and calls again.        *)
(* @retry(stop_max_attempt_number, wait_fixed) calls the function, returns *)
(* its result when it did not raise, re-raises the exception when          *)
(* attempt_number >= stop_max_attempt_number, and otherwise sleeps         *)
(* wait_fixed milliseconds and calls again with attempt_number + 1.        *)
(* Time is in whole seconds; a request itself takes no time.               *)

\* @limits(calls=10, period=60)
Calls == 10
Period == 60

\* MAX_RETRIES = 3, given as stop_max_attempt_number; wait_fixed=2000
MAX_RETRIES == 3
WaitFixed == 2

\* limiter.__period_remaining() at time t
PeriodRemaining(l, t) == Period - (t - l.last_reset)

\* the locked section of @limits at time t: reset when the period has
\* run out, then count the call
LimitsEnter(l, t) ==
    IF PeriodRemaining(l, t) <= 0
    THEN [num_calls |-> 1, last_reset |-> t]
    ELSE [num_calls |-> l.num_calls + 1, last_reset |-> l.last_reset]

\* whether the call goes on to the function (else RateLimitException)
LimitsAdmits(l, t) == LimitsEnter(l, t).num_calls <= Calls

\* the requests still within one period before time t
Recent(log, t) == SelectSeq(log, LAMBDA x : x > t - Period)

\* what requests.get(...) and raise_for_status() can come to
RequestOutcomes == {"ok", "timeout", "http_error", "connection_error"}

\* the body of rate_limited_request: the response, or the
\* RequestException logged and raised again
RequestResult(o) == IF o = "ok" THEN [t |-> "response"] ELSE Raise(o)

(* Callers of rate_limited_request, each on its own thread. *)

NumCallers == 2
TickStep == 20
MaxClock == 100

Callers == 1..NumCallers

InitRate ==
    /\ call = [fn |-> "rate_limited_request"]
    /\ ret = Pending
    /\ NoRun
    /\ clock = 0
    /\ limiter = [num_calls |-> 0, last_reset |-> 0]
    /\ issued = <<>>
    /\ threads = [c \in Callers |-> [pc |-> "idle", wake |-> 0, ret |-> Pending]]

\* time passes
Tick ==
    /\ clock + TickStep <= MaxClock
    /\ clock' = clock + TickStep
    /\ issued' = Recent(issued, clock + TickStep)
    /\ UNCHANGED <<call, ret, username, pc, api, scrape, driver, profile_data,
                   local, limiter, threads, runVars>>

\* caller c enters rate_limited_request, or comes back to it after the
\* sleep of @sleep_and_retry: the request is made, or the caller sleeps
LimitedCall(c) ==
    /\ \/ threads[c].pc = "idle"
       \/ threads[c].pc = "sleeping" /\ clock >= threads[c].wake
    /\ limiter' = LimitsEnter(limiter, clock)
    /\ IF LimitsAdmits(limiter, clock)
       THEN \E o \in RequestOutcomes :
                /\ issued' = Append(issued, clock)
                /\ threads' = [threads EXCEPT ![c] =
                                [pc |-> "idle", wake |-> 0, ret |-> RequestResult(o)]]
       ELSE /\ issued' = issued
            /\ threads' = [threads EXCEPT ![c] =
                            [pc |-> "sleeping",
                             wake |-> clock + PeriodRemaining(limiter, clock),
                             ret |-> threads[c].ret]]
    /\ UNCHANGED <<call, ret, username, pc, api, scrape, driver, profile_data,
                   local, clock, runVars>>

NextRate == Tick \/ \E c \in Callers : LimitedCall(c)

SpecRate == InitRate /\ [][NextRate]_vars

(* One call of retry_request. *)

Urls == {<<"u", "1">>, <<"u", "2">>}

\* the limiter as earlier calls of the process left it
LimiterStates ==
    {[num_calls |-> n, last_reset |-> 0] : n \in {0, Calls - 1, Calls}}

InitRetry ==
    /\ call \in {[fn |-> "retry_request", url |-> u] : u \in Urls}
    /\ ret = Pending
    /\ NoRun
    /\ clock \in {0, TickStep}
    /\ limiter \in LimiterStates
    /\ issued = <<>>
    /\ threads = <<>>
    /\ local = Pending

\* the time at which rate_limited_request, entered at time t by the only
\* caller, makes its request: at once, or after the sleep
AdmittedAt(l, t) ==
    IF LimitsAdmits(l, t) THEN t ELSE t + PeriodRemaining(l, t)

\* the limiter after that call
LimiterAfter(l, t) ==
    IF LimitsAdmits(l, t) THEN LimitsEnter(l, t)
    ELSE LimitsEnter(LimitsEnter(l, t), AdmittedAt(l, t))

\* the locals of the retry loop before the first attempt
RetryStart == [attempt_number |-> 1, outcomes |-> <<>>]

\* retrying's stop: attempt_number >= stop_max_attempt_number
RetryStops(attempt_number) == attempt_number >= MAX_RETRIES

\* one turn of the retry loop: the attempt, then the result returned, the
\* exception raised to the caller, or the wait before the next attempt
RetryAttempt ==
    /\ call.fn = "retry_request"
    /\ ret = Pending
    /\ \E o \in RequestOutcomes :
        LET l == IF local = Pending THEN RetryStart ELSE local
            at == AdmittedAt(limiter, clock)
        IN  /\ limiter' = LimiterAfter(limiter, clock)
            /\ issued' = Append(Recent(issued, at), at)
            /\ local' = [attempt_number |-> l.attempt_number + 1,
                         outcomes |-> Append(l.outcomes, o)]
            /\ IF o = "ok" \/ RetryStops(l.attempt_number)
               THEN /\ ret' = RequestResult(o)
                    /\ clock' = at
               ELSE /\ ret' = ret
                    /\ clock' = at + WaitFixed
    /\ UNCHANGED <<call, username, pc, api, scrape, driver, profile_data,
                   threads, runVars>>

NextRetry == RetryAttempt

SpecRetry == InitRetry /\ [][NextRetry]_vars

---------------------------------------------------------------------------
(* TikTokSayer.get_user_followers and TikTokSayer.get_user_following       *)

\* str.split()[0] of a text that holds a word: the first run of
\* non-whitespace characters
FirstWord(s) ==
    LET t == Strip(s)
        stops == {i \in 1..Len(t) : t[i] \in Whitespace}
    IN  IF stops = {} THEN t ELSE SubSeq(t, 1, SetMin(stops) - 1)

\* one turn of  for stat in stats_elems:  on the counts so far; an
\* exception of _parse_count ends the item
RelationCount(acc, field, n) ==
    IF n.t = "raise" THEN n ELSE [acc EXCEPT ![field] = n]

RelationStatKind(stat_text) ==
    CASE Contains(stat_text, <<"f", "o", "l", "l", "o", "w", "e", "r">>) ->
            "follower_count"
      [] Contains(stat_text, <<"f", "o", "l", "l", "o", "w", "i", "n", "g">>) ->
            "following_count"
      [] OTHER -> "none"

RelationStatOf(stat_text, kind, acc) ==
    IF acc.t = "raise" \/ kind = "none" THEN acc
    ELSE RelationCount(acc, kind, parse_count(FirstWord(stat_text)))

RelationStat(stat_text, acc) ==
    RelationStatOf(stat_text, RelationStatKind(stat_text), acc)

RECURSIVE RelationStats(_, _, _)
RelationStats(stats, i, acc) ==
    IF i > Len(stats) THEN acc
    ELSE RelationStats(stats, i + 1, RelationStat(ToLower(Strip(stats[i])), acc))

\* username_elem.text.strip().replace("@", "")
RelationHandle(item) == Remove(ElemText(item.username_elem), "@")

\* KeepEntry without the test: every item is kept
KeepEntryAlways(username_text) == TRUE

\* if username_text:  (only add if we have a username)
KeepEntry(username_text) == username_text # <<>>

\* the dict appended for an item; display_name or username_text
RelationEntry(username_text, display_name, counts) ==
    [username |-> StrV(username_text),
     display_name |-> StrV(IF display_name # <<>> THEN display_name
                           ELSE username_text),
     follower_count |-> counts.follower_count,
     following_count |-> counts.following_count]

\* the body of  for item in follower_items:  on the list so far; the
\* except clause of the item logs and goes on
RelationItem(item, counts, entries) ==
    IF counts.t # "raise" /\ KeepEntry(RelationHandle(item))
    THEN Append(entries, RelationEntry(RelationHandle(item),
                                       ElemText(item.display_name_elem), counts))
    ELSE entries

RECURSIVE RelationEntries(_, _, _)
RelationEntries(items, i, entries) ==
    IF i > Len(items) THEN entries
    ELSE RelationEntries(items, i + 1,
            RelationItem(items[i],
                         RelationStats(items[i].stats, 1,
                                       [t |-> "counts", follower_count |-> IntV(Zero),
                                        following_count |-> IntV(Zero)]),
                         entries))

\* What a call of get_user_followers or get_user_following can come to.
\* "setup_raises", "get_raises": setup_webdriver() or driver.get raised
\* (before the inner try); "wait_timeout": the page-ready wait raised;
\* "link_not_found": no selector found the list-opening control, and
\* get_profile_info is called for the approximate count (profile is what it
\* returned); "click_raises", "modal_timeout": the click or the wait for the
\* list raised; "parsed": the items of the list were read.  quit_raises:
\* driver.quit() raised in the finally clause.
RelationResult(o) ==
    IF o.kind = "parsed" THEN RelationEntries(o.items, 1, <<>>) ELSE <<>>

\* RelationReturn with the exception let out when the control is not found
RelationReturnRaising(o) ==
    IF o.kind = "link_not_found" THEN Raise("NoSuchElementException")
    ELSE ListV(RelationResult(o))

\* what the caller gets: the except clauses of 947 and 951 (1052, 1056) let
\* no exception out
RelationReturn(o) == ListV(RelationResult(o))

\* the profile fetched when the control was not found
RelationLocal(o) ==
    IF o.kind = "link_not_found" THEN [profile_data |-> o.profile] ELSE Pending

MaxItems == 2

RelationUsernameElems ==
    {NoneV, StrV(<<"@", "a", "b">>), StrV(<<"@">>), StrV(<<" ", "c", " ">>),
     StrV(<<"@", " ", "@">>)}

FollowersStat ==
    <<"1", ".", "2", "K", " ", "F", "o", "l", "l", "o", "w", "e", "r", "s">>
FollowingStat == <<"5", " ", "f", "o", "l", "l", "o", "w", "i", "n", "g">>
OverflowStat ==
    Rep("9", DblMaxDigits) \o <<" ", "f", "o", "l", "l", "o", "w", "e", "r", "s">>

\* list items: every handle element with and without a display name, and
\* items whose display name is blank or whose count cannot be converted
RelationItems ==
    {[username_elem |-> u, display_name_elem |-> d, stats |-> <<FollowersStat>>] :
        u \in RelationUsernameElems, d \in {NoneV, StrV(<<"A", "l">>)}}
    \cup {[username_elem |-> StrV(<<"d">>), display_name_elem |-> StrV(<<" ">>),
           stats |-> <<>>],
          [username_elem |-> StrV(<<"e">>), display_name_elem |-> NoneV,
           stats |-> <<FollowingStat, FollowersStat>>],
          [username_elem |-> StrV(<<"f">>), display_name_elem |-> NoneV,
           stats |-> <<FollowingStat, OverflowStat>>]}

RelationProfiles ==
    {EmptyDict, FallbackRecord(<<"a", "b">>, <<>>),
     ApiRecord(<<"a", "b">>, EmptyDict, EmptyDict)}

RelationOutcomes ==
    {[kind |-> k, quit_raises |-> FALSE] : k \in {"setup_raises", "get_raises"}}
    \cup {[kind |-> k, quit_raises |-> q] :
            k \in {"wait_timeout", "click_raises", "modal_timeout"}, q \in BOOLEAN}
    \cup {[kind |-> "link_not_found", quit_raises |-> q, profile |-> p] :
            q \in BOOLEAN, p \in RelationProfiles}
    \cup {[kind |-> "parsed", quit_raises |-> q, items |-> its] :
            q \in BOOLEAN, its \in UNION {[1..n -> RelationItems] : n \in 0..MaxItems}}

InitRelations ==
    /\ call \in {[fn |-> f, username |-> u] :
                    f \in {"get_user_followers", "get_user_following"},
                    u \in {<<"a", "b">>}}
    /\ ret = Pending
    /\ NoRun
    /\ NoNet

\* a whole call: the list read from the page, the session released in the
\* finally clause
RelationCall(fn) ==
    /\ call.fn = fn
    /\ ret = Pending
    /\ \E o \in RelationOutcomes :
        /\ scrape' = o
        /\ ret' = RelationReturn(o)
        /\ driver' = DriverAfter(o)
        /\ local' = RelationLocal(o)
    /\ UNCHANGED <<call, username, pc, api, profile_data, netVars, runVars>>

GetUserFollowers == RelationCall("get_user_followers")

GetUserFollowing == RelationCall("get_user_following")

NextRelations == GetUserFollowers \/ GetUserFollowing

SpecRelations == InitRelations /\ [][NextRelations]_vars

---------------------------------------------------------------------------
(* TikTokSayer.extract_contact_info                                        *)
(*                                                                         *)
(* A text (the bio, a video description) is given by whether it is blank   *)
(* and by what re.findall returns on it for the three patterns: emails,    *)
(* phones, websites.  An anchor is given by its href and its data-e2e      *)
(* attribute.                                                              *)

\* urlparse(x): scheme, netloc and path of a URL that validate_data accepted
UrlAfterScheme(u) == SubSeq(u, SetMin({i \in 1..Len(u) : u[i] = ":"}) + 3, Len(u))

UrlScheme(u) == SubSeq(u, 1, SetMin({i \in 1..Len(u) : u[i] = ":"}) - 1)

UrlPathOf(rest) ==
    LET slashes == {i \in 1..Len(rest) : rest[i] \in {"/", "?", "#"}}
        ends == {i \in 1..Len(rest) : rest[i] \in {"?", "#"}}
    IN  IF slashes = {} \/ rest[SetMin(slashes)] # "/" THEN <<>>
        ELSE SubSeq(rest, SetMin(slashes),
                    IF ends = {} THEN Len(rest) ELSE SetMin(ends) - 1)

UrlPath(u) == UrlPathOf(UrlAfterScheme(Remove(Remove(u, "\t"), "\n")))

\* f"{parsed_url.scheme}://{parsed_url.netloc}{parsed_url.path}"
BaseUrl(u) == UrlScheme(u) \o <<":", "/", "/">> \o UrlNetloc(u).v \o UrlPath(u)

\* urlparse(x).netloc + urlparse(x).path
NetlocPath(u) == UrlNetloc(u).v \o UrlPath(u)

Range(s) == {s[i] : i \in 1..Len(s)}

\* the lists of contact_info, and the values validate_data returned during
\* the call (validated, kept for the claims only)
EmptyContactInfo ==
    [emails |-> <<>>, phone_numbers |-> <<>>, social_links |-> <<>>,
     websites |-> <<>>, validated |-> {}]

Noted(ci, v) ==
    IF v = NoneV THEN ci ELSE [ci EXCEPT !.validated = @ \cup {v.v}]

\* if validated and validated not in contact_info[field]: append
AppendNew(ci, field, v) ==
    IF v # NoneV /\ v.v \notin Range(ci[field])
    THEN [Noted(ci, v) EXCEPT ![field] = Append(@, v.v)]
    ELSE Noted(ci, v)

\* validate_data(email, 'email') and the append (1116-1119, 1249-1253)
AddEmail(ci, email) ==
    AppendNew(ci, "emails", validate_data(StrV(email), "email", NoneV, NoneV, NoneV))

\* re.sub(r'[\s-]', '', phone) and the append (1126-1130, 1258-1262)
CleanedPhone(phone) == SelectSeq(phone, LAMBDA ch : ch \notin Whitespace \cup {"-"})

AddPhone(ci, phone) ==
    IF CleanedPhone(phone) # <<>> /\ CleanedPhone(phone) \notin Range(ci.phone_numbers)
    THEN [ci EXCEPT !.phone_numbers = Append(@, CleanedPhone(phone))]
    ELSE ci

\* validate_data(website, 'url') and the append (1137-1140)
AddBioWebsite(ci, website) ==
    AppendNew(ci, "websites", validate_data(StrV(website), "url", NoneV, NoneV, NoneV))

SocialWords ==
    {<<"t", "i", "k", "t", "o", "k">>,
     <<"i", "n", "s", "t", "a", "g", "r", "a", "m">>,
     <<"f", "a", "c", "e", "b", "o", "o", "k">>,
     <<"t", "w", "i", "t", "t", "e", "r">>,
     <<"y", "o", "u", "t", "u", "b", "e">>,
     <<"l", "i", "n", "k", "e", "d", "i", "n">>,
     <<"s", "n", "a", "p", "c", "h", "a", "t">>}

\* any(social in text.lower() for social in [...])
NamesSocial(text) == \E w \in SocialWords : Contains(ToLower(text), w)

\* 1267-1275: a validated website of a description is skipped when it
\* names a social platform
CaptionWebsite(ci, v) ==
    IF v # NoneV /\ v.v \notin Range(ci.websites) /\ NamesSocial(v.v)
    THEN Noted(ci, v) ELSE AppendNew(ci, "websites", v)

AddCaptionWebsite(ci, website) ==
    CaptionWebsite(ci, validate_data(StrV(website), "url", NoneV, NoneV, NoneV))

\* 1164-1173 and 1213-1222: a validated URL not yet in the list is appended
\* when its base URL is not among netloc + path of the entries
AnchorUrl(ci, field, v) ==
    IF /\ v # NoneV
       /\ v.v \notin Range(ci[field])
       /\ BaseUrl(v.v) \in {NetlocPath(x) : x \in Range(ci[field])}
    THEN Noted(ci, v) ELSE AppendNew(ci, field, v)

AddSocialAnchor(ci, href) ==
    AnchorUrl(ci, "social_links", validate_data(href, "url", NoneV, NoneV, NoneV))

\* 1205-1222: anchors naming a social platform are skipped before validation
AddWebsiteAnchor(ci, href) ==
    IF href # NoneV /\ NamesSocial(href.v) THEN ci
    ELSE AnchorUrl(ci, "websites", validate_data(href, "url", NoneV, NoneV, NoneV))

RECURSIVE FoldText(_, _, _, _)
FoldText(list, i, ci, kind) ==
    IF i > Len(list) THEN ci
    ELSE FoldText(list, i + 1,
                  CASE kind = "email" -> AddEmail(ci, list[i])
                    [] kind = "phone" -> AddPhone(ci, list[i])
                    [] kind = "bio_website" -> AddBioWebsite(ci, list[i])
                    [] kind = "caption_website" -> AddCaptionWebsite(ci, list[i])
                    [] kind = "social_anchor" -> AddSocialAnchor(ci, list[i].href)
                    [] kind = "website_anchor" -> AddWebsiteAnchor(ci, list[i].href),
                  kind)

\* 1110-1141: the bio;  if bio:  has no blank text go on
FromBio(bio, ci) ==
    FoldText(bio.websites, 1,
             FoldText(bio.phones, 1, FoldText(bio.emails, 1, ci, "email"), "phone"),
             "bio_website")

\* soup.select(selector) of the five social selectors (1144-1155), by the
\* href and the data-e2e attribute of an anchor
HrefHas(a, word) == a.href # NoneV /\ Contains(a.href.v, word)

SocialSelects(k, a) ==
    CASE k = 1 -> \E w \in SocialWords \ {<<"t", "i", "k", "t", "o", "k">>} :
                      HrefHas(a, w)
      [] k = 2 -> a.e2e = "user-social-link"
      [] k = 3 -> \/ HrefHas(a, <<"i", "n", "s", "t", "a", "g", "r", "a", "m", ".",
                                  "c", "o", "m">>)
                  \/ a.e2e = "instagram-link"
      [] k = 4 -> \/ HrefHas(a, <<"y", "o", "u", "t", "u", "b", "e", ".", "c", "o",
                                  "m">>)
                  \/ a.e2e = "youtube-link"
      [] k = 5 -> \/ HrefHas(a, <<"t", "w", "i", "t", "t", "e", "r", ".", "c", "o",
                                  "m">>)
                  \/ HrefHas(a, <<"x", ".", "c", "o", "m">>)
                  \/ a.e2e = "twitter-link"

\* the three website selectors (1196-1200); the class selectors of the
\* share-links container and of .link-in-bio match no anchor of the model
WebsiteSelects(k, a) ==
    CASE k = 1 -> a.href # NoneV /\ StartsWith(a.href.v, <<"h", "t", "t", "p">>)
      [] k = 2 -> a.e2e = "user-website"
      [] k = 3 -> FALSE

Selected(anchors, k, social) ==
    SelectSeq(anchors, LAMBDA a : IF social THEN SocialSelects(k, a)
                                  ELSE WebsiteSelects(k, a))

\* for selector in social_selectors (1158-1193)
RECURSIVE FromSocialSelectors(_, _, _)
FromSocialSelectors(anchors, k, ci) ==
    IF k > 5 THEN ci
    ELSE FromSocialSelectors(anchors, k + 1,
            FoldText(Selected(anchors, k, TRUE), 1, ci, "social_anchor"))

\* for selector in website_selectors (1202-1226)
RECURSIVE FromWebsiteSelectors(_, _, _)
FromWebsiteSelectors(anchors, k, ci) ==
    IF k > 3 THEN ci
    ELSE FromWebsiteSelectors(anchors, k + 1,
            FoldText(Selected(anchors, k, FALSE), 1, ci, "website_anchor"))

\* email_pattern, phone_pattern and website_pattern are assigned under
\* if bio:  (1111-1134) only
PatternsBound(bio) == ~bio.blank

\* for desc in video_descriptions (1241-1276): a blank description is passed
\* over; with the patterns unbound, re.findall(email_pattern, desc_text) of
\* the first other one raises UnboundLocalError, which ends the try block
RECURSIVE FromCaptions(_, _, _, _)
FromCaptions(captions, i, ci, bound) ==
    IF i > Len(captions) THEN ci
    ELSE IF captions[i].blank THEN FromCaptions(captions, i + 1, ci, bound)
    ELSE IF ~bound THEN ci
    ELSE FromCaptions(captions, i + 1,
            FoldText(captions[i].websites, 1,
                     FoldText(captions[i].phones, 1,
                              FoldText(captions[i].emails, 1, ci, "email"),
                              "phone"),
                     "caption_website"),
            bound)

FromPage(o) ==
    FromSocialSelectors(o.anchors, 1, FromBio(o.bio, EmptyContactInfo))

\* contact_info when the inner try is left.  "setup_raises": setup_webdriver()
\* raised (1090, outer except); "get_raises", "wait_timeout": driver.get or the
\* wait raised (1093-1098); "not_found": the page says the account does not
\* exist (1105-1107); "scroll_raises": execute_script raised (1232), the bio
\* and the anchors were read; "parsed": the descriptions were read too
ContactLists(o) ==
    CASE o.kind = "scroll_raises" -> FromWebsiteSelectors(o.anchors, 1, FromPage(o))
      [] o.kind = "parsed" ->
            FromCaptions(o.captions, 1,
                         FromWebsiteSelectors(o.anchors, 1, FromPage(o)),
                         PatternsBound(o.bio))
      [] OTHER -> EmptyContactInfo

\* list(set(x)) (1284-1287) is reached unless the function returned at 1107
\* or setup_webdriver or driver.quit raised
Deduplicated(o) == o.kind \notin {"setup_raises", "not_found"} /\ ~o.quit_raises

\* list(set(x)): the distinct members of x in an order of the set's
ListOfSet(x, deduplicated) ==
    IF deduplicated
    THEN {l \in [1..Cardinality(Range(x)) -> Range(x)] : Range(l) = Range(x)}
    ELSE {x}

\* the rendering session after the call: driver.get is inside the try
ContactDriverAfter(o) ==
    CASE o.kind = "setup_raises" -> "none"
      [] o.quit_raises -> "open"
      [] OTHER -> "quit"

InstaA ==
    <<"h", "t", "t", "p", "s", ":", "/", "/", "i", "n", "s", "t", "a", "g",
      "r", "a", "m", ".", "c", "o", "m", "/", "u", "?", "a", "=", "1">>
InstaB ==
    <<"h", "t", "t", "p", "s", ":", "/", "/", "i", "n", "s", "t", "a", "g",
      "r", "a", "m", ".", "c", "o", "m", "/", "u", "?", "a", "=", "2">>
SiteA ==
    <<"h", "t", "t", "p", "s", ":", "/", "/", "e", "x", ".", "o", "r", "g",
      "/", "p", "?", "x", "=", "1">>
SiteB ==
    <<"h", "t", "t", "p", "s", ":", "/", "/", "e", "x", ".", "o", "r", "g",
      "/", "p", "?", "x", "=", "2">>
NoScheme ==
    <<"e", "x", ".", "o", "r", "g", "/", "p">>
MailA ==
    <<"a", "@", "b", ".", "c", "o">>
PhoneSpaced ==
    <<"5", "5", "5", " ", "0", "1", "0", " ", "0", "1", "9", "9">>
PhoneDashed ==
    <<"5", "5", "5", "-", "0", "1", "0", "-", "0", "1", "9", "9">>

MaxAnchors == 2
MaxCaptions == 1

TextOf(emails, phones, websites) ==
    [blank |-> FALSE, emails |-> emails, phones |-> phones, websites |-> websites]

BlankText == [blank |-> TRUE, emails |-> <<>>, phones |-> <<>>, websites |-> <<>>]

Bios ==
    {BlankText, TextOf(<<>>, <<>>, <<>>),
     TextOf(<<MailA>>, <<PhoneSpaced>>, <<SiteA>>),
     TextOf(<<MailA, MailA>>, <<PhoneSpaced, PhoneDashed>>, <<InstaA, SiteA>>)}

Captions ==
    {BlankText, TextOf(<<MailA>>, <<PhoneDashed>>, <<SiteB>>),
     TextOf(<<>>, <<>>, <<InstaB, SiteA>>)}

Anchors ==
    {[href |-> h, e2e |-> "none"] :
        h \in {NoneV, StrV(InstaA), StrV(InstaB), StrV(SiteA), StrV(SiteB),
               StrV(NoScheme)}}
    \cup {[href |-> StrV(SiteA), e2e |-> "user-social-link"],
          [href |-> StrV(NoScheme), e2e |-> "user-website"]}

ContactOutcomes ==
    {[kind |-> "setup_raises", quit_raises |-> FALSE]}
    \cup {[kind |-> k, quit_raises |-> q] :
            k \in {"get_raises", "wait_timeout", "not_found"}, q \in BOOLEAN}
    \cup {[kind |-> "scroll_raises", quit_raises |-> q, bio |-> b, anchors |-> as] :
            q \in BOOLEAN, b \in Bios,
            as \in UNION {[1..n -> Anchors] : n \in 0..MaxAnchors}}
    \cup {[kind |-> "parsed", quit_raises |-> q, bio |-> b, anchors |-> as,
           captions |-> cs] :
            q \in BOOLEAN, b \in Bios,
            as \in UNION {[1..n -> Anchors] : n \in 0..MaxAnchors},
            cs \in UNION {[1..n -> Captions] : n \in 0..MaxCaptions}}

InitContact ==
    /\ call \in {[fn |-> "extract_contact_info", username |-> u] :
                    u \in {<<"a", "b">>}}
    /\ ret = Pending
    /\ NoRun
    /\ NoNet

ContactReturn(o, ci, deduplicated) ==
    /\ scrape' = o
    /\ driver' = ContactDriverAfter(o)
    /\ local' = [validated |-> ci.validated]
    /\ \E e \in ListOfSet(ci.emails, deduplicated) :
       \E p \in ListOfSet(ci.phone_numbers, deduplicated) :
       \E l \in ListOfSet(ci.social_links, deduplicated) :
       \E w \in ListOfSet(ci.websites, deduplicated) :
          ret' = [t |-> "contact_info", emails |-> e, phone_numbers |-> p,
                  social_links |-> l, websites |-> w,
                  extraction_timestamp |-> Now, data_source |-> "web_scraping"]

\* a whole call: the page read, the session released, the lists deduplicated
ExtractContactInfo ==
    /\ call.fn = "extract_contact_info"
    /\ ret = Pending
    /\ \E o \in ContactOutcomes : ContactReturn(o, ContactLists(o), Deduplicated(o))
    /\ UNCHANGED <<call, username, pc, api, profile_data, netVars, runVars>>

NextContact == ExtractContactInfo

SpecContact == InitContact /\ [][NextContact]_vars

---------------------------------------------------------------------------
(* Claims about the request helpers (under SpecRate and SpecRetry).        *)

\* C18: across all callers at most 10 requests are issued in any 60-second
\* window (issued holds the requests of the last 60 seconds), and a call made
\* at the ceiling blocks and then proceeds: no caller is handed the
\* limiter's exception.
CeilingPerRollingWindow ==
    /\ Len(issued) <= Calls
    /\ \A c \in DOMAIN threads :
          /\ threads[c].ret # Raise("RateLimitException")
          /\ threads[c].pc = "sleeping" => threads[c].wake <= clock + Period

RetryReturned == call.fn = "retry_request" /\ ret # Pending

\* C19: when every attempt fails, retry_request retries 3 times (the first
\* attempt and 3 more) and then raises the error of the last attempt to its
\* caller; a success on any attempt returns that response and ends the call.
RetriesThreeTimesThenRaises ==
    RetryReturned =>
        LET outcomes == local.outcomes
            n == Len(outcomes)
        IN  /\ n >= 1
            /\ \A i \in 1..(n - 1) : outcomes[i] # "ok"
            /\ ret = RequestResult(outcomes[n])
            /\ n - 1 <= MAX_RETRIES
            /\ ret.t = "raise" => n - 1 = MAX_RETRIES

---------------------------------------------------------------------------
(* Claims about get_user_followers and get_user_following (under           *)
(* SpecRelations).                                                         *)

RelationsReturned ==
    call.fn \in {"get_user_followers", "get_user_following"} /\ ret # Pending

\* a list item without a resolvable handle: the element is missing, or its
\* text is empty after trimming and removing '@'
Unresolvable(item) ==
    \/ item.username_elem = NoneV
    \/ \A i \in 1..Len(Strip(item.username_elem.v)) :
          Strip(item.username_elem.v)[i] = "@"

\* entry e is what item yields: its handle without '@', and its display
\* name, the handle standing in for a display name that was not resolved
EntryOf(e, item) ==
    /\ ~Unresolvable(item)
    /\ e.username.v = SelectSeq(Strip(item.username_elem.v), LAMBDA ch : ch # "@")
    /\ e.display_name.v =
          IF item.display_name_elem = NoneV \/ Strip(item.display_name_elem.v) = <<>>
          THEN e.username.v ELSE Strip(item.display_name_elem.v)

\* C17: no entry of the returned sequence has an empty handle; items without
\* a resolvable handle are skipped; a kept entry's display name is the handle
\* when no display name was resolved.
NoEntryWithEmptyHandle ==
    RelationsReturned =>
        /\ \A k \in 1..Len(ret.v) :
              /\ ret.v[k].username.v # <<>>
              /\ ret.v[k].display_name.v # <<>>
        /\ scrape.kind # "parsed" => ret.v = <<>>
        /\ scrape.kind = "parsed" =>
              /\ \A k \in 1..Len(ret.v) :
                    \E i \in 1..Len(scrape.items) : EntryOf(ret.v[k], scrape.items[i])
              /\ Len(ret.v) <=
                    Cardinality({i \in 1..Len(scrape.items) :
                                    ~Unresolvable(scrape.items[i])})

NoEntryWithEmptyHandleWitness ==
    /\ RelationsReturned
    /\ scrape.kind = "parsed"
    /\ Len(scrape.items) = 2
    /\ scrape.items[1].username_elem = StrV(<<"@">>)
    /\ scrape.items[2].username_elem = StrV(<<"@", "a", "b">>)
    /\ scrape.items[2].display_name_elem = NoneV
    /\ Len(ret.v) = 1
    /\ ret.v[1].username = StrV(<<"a", "b">>)
    /\ ret.v[1].display_name = StrV(<<"a", "b">>)

\* C24: when the control opening the list is not found, the extractor makes
\* no further call of get_profile_info (local holds what such a call
\* returned to it).
NoFurtherProfileFetch ==
    RelationsReturned /\ scrape.kind = "link_not_found" => local = Pending

\* C20: the rendering session a call acquired is released when the call
\* returns, on every exit path on which releasing it did not itself fail.
SessionReleasedOnReturn ==
    RelationsReturned /\ ~scrape.quit_raises => driver # "open"

---------------------------------------------------------------------------
(* TikTokSayer.get_tagged_users                                            *)
(*                                                                         *)
(* Lines 1450-1558 of the source are indented four columns deeper than the *)
(* except clauses at 1577 and 1579 that close them; the model reads the    *)
(* secondary pass by those except clauses (the try of 1450 under           *)
(* "if not tagged:", the item loop in it, lines 1560-1576 in the try of    *)
(* each item).  The name hashtag of the log calls at 1494, 1502 and 1505   *)
(* is bound nowhere: whether the pass ends there with a NameError (caught  *)
(* at 1579) or goes on to the items is left open (hashtag.kind).           *)

\* the code point of a character of a date string
CodePoint(ch) == IF ch = "-" THEN 45 ELSE 48 + DigitVal(ch)

\* a > b of two str: code points compared from the left, a proper prefix
\* being the smaller
RECURSIVE StrGreater(_, _)
StrGreater(a, b) ==
    IF a = <<>> THEN FALSE
    ELSE IF b = <<>> THEN TRUE
    ELSE IF Head(a) = Head(b) THEN StrGreater(Tail(a), Tail(b))
    ELSE CodePoint(Head(a)) > CodePoint(Head(b))

\* username_elem.text.strip() if username_elem else "", '@' removed
TaggerUsername(item) == Remove(ElemText(item.username_elem), "@")

\* if tagger_username.lower() == username.lower(): continue
IsTarget(tagger_username, uname) == ToLower(tagger_username) = ToLower(uname)

\* display_name_elem.text.strip() if display_name_elem else tagger_username
PrimaryDisplayName(item) ==
    IF item.display_name_elem = NoneV THEN TaggerUsername(item)
    ELSE Strip(item.display_name_elem.v)

\* date_elem.text.strip() if date_elem else datetime.now().strftime(...)
PrimaryPostDate(item, today) ==
    IF item.date_elem = NoneV THEN today ELSE Strip(item.date_elem.v)

\* the secondary pass takes an element only when its text is not blank
HashtagDisplayName(item) ==
    IF ElemText(item.display_name_elem) = <<>> THEN TaggerUsername(item)
    ELSE ElemText(item.display_name_elem)

HashtagPostDate(item, today) ==
    IF ElemText(item.date_elem) = <<>> THEN today ELSE ElemText(item.date_elem)

\* next((user for user in tagged if user['username'] == tagger_username), None)
ExistingUser(tagged, tagger_username) ==
    {i \in 1..Len(tagged) : tagged[i].username = StrV(tagger_username)}

UpdateExisting(tagged, i, post_date) ==
    [tagged EXCEPT ![i] =
        [@ EXCEPT !.post_count = @ + 1,
                  !.last_tagged = IF StrGreater(post_date, @.v)
                                  THEN StrV(post_date) ELSE @]]

\* Sighting without the lookup: every sighting is a new entry
SightingAppends(tagged, tagger_username, display_name, post_date) ==
    Append(tagged, [username |-> StrV(tagger_username),
                    display_name |-> StrV(display_name),
                    post_count |-> 1,
                    last_tagged |-> StrV(post_date)])

\* lines 1421-1437 and 1560-1576: one more post of a known user, or a new
\* entry
Sighting(tagged, tagger_username, display_name, post_date) ==
    IF ExistingUser(tagged, tagger_username) # {}
    THEN UpdateExisting(tagged, SetMin(ExistingUser(tagged, tagger_username)),
                        post_date)
    ELSE Append(tagged, [username |-> StrV(tagger_username),
                         display_name |-> StrV(display_name),
                         post_count |-> 1,
                         last_tagged |-> StrV(post_date)])

\* for item in video_items:  of the primary pass (1402-1439)
RECURSIVE PrimaryPass(_, _, _, _, _)
PrimaryPass(items, i, uname, today, tagged) ==
    IF i > Len(items) THEN tagged
    ELSE PrimaryPass(items, i + 1, uname, today,
            IF IsTarget(TaggerUsername(items[i]), uname) THEN tagged
            ELSE Sighting(tagged, TaggerUsername(items[i]),
                          PrimaryDisplayName(items[i]),
                          PrimaryPostDate(items[i], today)))

\* for item in video_items:  of the secondary pass (1508-1578)
RECURSIVE HashtagPass(_, _, _, _, _)
HashtagPass(items, i, uname, today, tagged) ==
    IF i > Len(items) THEN tagged
    ELSE HashtagPass(items, i + 1, uname, today,
            IF \/ TaggerUsername(items[i]) = <<>>
               \/ IsTarget(TaggerUsername(items[i]), uname)
            THEN tagged
            ELSE Sighting(tagged, TaggerUsername(items[i]),
                          HashtagDisplayName(items[i]),
                          HashtagPostDate(items[i], today)))

\* SortByPostCount without the sort: the list as it was built
SortKept(tagged) == tagged

\* tagged.sort(key=lambda x: x['post_count'], reverse=True): entries of
\* equal post_count keep their order
RECURSIVE SortByPostCount(_)
SortByPostCount(tagged) ==
    IF tagged = <<>> THEN <<>>
    ELSE LET top == SetMin({i \in 1..Len(tagged) :
                        \A j \in 1..Len(tagged) :
                            tagged[j].post_count <= tagged[i].post_count})
         IN  <<tagged[top]>> \o
             SortByPostCount(SubSeq(tagged, 1, top - 1)
                             \o SubSeq(tagged, top + 1, Len(tagged)))

\* if not tagged:  (1442) with what the secondary pass comes to
AfterPrimary(tagged, o, uname) ==
    IF tagged # <<>> \/ o.hashtag.kind # "items" THEN tagged
    ELSE HashtagPass(o.hashtag.items, 1, uname, o.today, <<>>)

\* the list before the sort.  "setup_raises", "get_raises": setup_webdriver()
\* or driver.get(search_url) raised (1380-1381, outer except); "wait_timeout":
\* the wait of 1385 raised; "searched": the items of the search page were
\* read
TaggedList(o, uname) ==
    IF o.kind = "searched"
    THEN AfterPrimary(PrimaryPass(o.items, 1, uname, o.today, <<>>), o, uname)
    ELSE <<>>

TaggedResult(o, uname) == SortByPostCount(TaggedList(o, uname))

\* whether driver.get(hashtag_search_url) of line 1447 is reached: the items
\* of the search page were read and  if not tagged:  holds
SecondarySearch(o, uname) ==
    /\ o.kind = "searched"
    /\ PrimaryPass(o.items, 1, uname, o.today, <<>>) = <<>>

MaxPosts == 3

Feb1 == <<"2", "0", "2", "4", "-", "0", "2", "-", "0", "1">>
Jan1 == <<"2", "0", "2", "4", "-", "0", "1", "-", "0", "1">>
Mar1 == <<"2", "0", "2", "4", "-", "0", "3", "-", "0", "1">>

VideoItem(u, d, date) ==
    [username_elem |-> u, display_name_elem |-> d, date_elem |-> date]

\* result items: items without a handle, the target's own post, an author
\* seen on two dates and once more with a blank name and date, an author
\* without a date
VideoItems ==
    {VideoItem(NoneV, NoneV, NoneV),
     VideoItem(StrV(<<"@">>), NoneV, StrV(Jan1)),
     VideoItem(StrV(<<"@", "a", "b">>), NoneV, StrV(Jan1)),
     VideoItem(StrV(<<"c">>), NoneV, StrV(Jan1)),
     VideoItem(StrV(<<"c">>), StrV(<<"A", "l">>), StrV(Mar1)),
     VideoItem(StrV(<<"@", "c", " ">>), StrV(<<" ">>), StrV(<<" ">>)),
     VideoItem(StrV(<<"d">>), NoneV, NoneV)}

VideoLists == UNION {[1..n -> VideoItems] : n \in 0..MaxPosts}

\* what the secondary pass comes to when the primary pass found nobody:
\* "get_raises" (driver.get of 1447), "name_error" (hashtag unbound),
\* "items" (its items were read)
HashtagOutcomes ==
    {[kind |-> "get_raises"], [kind |-> "name_error"]}
    \cup {[kind |-> "items", items |-> its] :
            its \in UNION {[1..n -> VideoItems] : n \in 1..2}}

TaggedOutcomes(uname) ==
    {[kind |-> k, quit_raises |-> FALSE] : k \in {"setup_raises", "get_raises"}}
    \cup {[kind |-> "wait_timeout", quit_raises |-> q] : q \in BOOLEAN}
    \cup {[kind |-> "searched", quit_raises |-> q, today |-> Feb1, items |-> its,
           hashtag |-> [kind |-> "not_run"]] :
            q \in BOOLEAN,
            its \in {l \in VideoLists : PrimaryPass(l, 1, uname, Feb1, <<>>) # <<>>}}
    \cup {[kind |-> "searched", quit_raises |-> q, today |-> Feb1, items |-> its,
           hashtag |-> h] :
            q \in BOOLEAN, h \in HashtagOutcomes,
            its \in {l \in VideoLists : PrimaryPass(l, 1, uname, Feb1, <<>>) = <<>>}}

\* the handle as analyze_account passes it: the text of the entry, trimmed
TaggedUsernames == {<<"a", "b">>, <<"@", "a", "b">>, <<"A", "b">>}

InitTagged ==
    /\ call \in {[fn |-> "get_tagged_users", username |-> u] : u \in TaggedUsernames}
    /\ ret = Pending
    /\ NoRun
    /\ NoNet

\* a whole call: both passes, the session released in the finally clause,
\* the sort of line 1589
GetTaggedUsers ==
    /\ call.fn = "get_tagged_users"
    /\ ret = Pending
    /\ \E o \in TaggedOutcomes(call.username) :
        /\ scrape' = o
        /\ ret' = ListV(TaggedResult(o, call.username))
        /\ driver' = DriverAfter(o)
        /\ local' = [hashtag_search |-> SecondarySearch(o, call.username)]
    /\ UNCHANGED <<call, username, pc, api, profile_data, netVars, runVars>>

NextTagged == GetTaggedUsers

SpecTagged == InitTagged /\ [][NextTagged]_vars

---------------------------------------------------------------------------
(* Claims about get_tagged_users (under SpecTagged).                       *)

TaggedReturned == call.fn = "get_tagged_users" /\ ret # Pending

\* the author handle of a result item: the text of its element, trimmed,
\* without '@'; empty when there is no element
AuthorHandle(item) ==
    IF item.username_elem = NoneV THEN <<>>
    ELSE SelectSeq(Strip(item.username_elem.v), LAMBDA ch : ch # "@")

\* the account the run is about: the handle as get_profile_info looks it up
TargetHandle == StripAtRef(Strip(call.username))

\* the items of the primary pass that are not skipped
PrimaryAccepted ==
    IF scrape.kind # "searched" THEN <<>>
    ELSE SelectSeq(scrape.items,
                   LAMBDA it : ToLower(AuthorHandle(it)) # ToLower(call.username))

\* the items of the secondary pass that are not skipped
HashtagAccepted ==
    IF scrape.kind # "searched" \/ scrape.hashtag.kind # "items" THEN <<>>
    ELSE SelectSeq(scrape.hashtag.items,
                   LAMBDA it : /\ AuthorHandle(it) # <<>>
                               /\ ToLower(AuthorHandle(it)) # ToLower(call.username))

\* the date string of an accepted item
SightingDate(it, blank_is_today) ==
    IF it.date_elem = NoneV THEN scrape.today
    ELSE IF blank_is_today /\ Strip(it.date_elem.v) = <<>> THEN scrape.today
    ELSE Strip(it.date_elem.v)

\* the accepted sightings of the call, in order
AcceptedSightings ==
    IF PrimaryAccepted # <<>>
    THEN [i \in 1..Len(PrimaryAccepted) |->
            [handle |-> AuthorHandle(PrimaryAccepted[i]),
             date |-> SightingDate(PrimaryAccepted[i], FALSE)]]
    ELSE [i \in 1..Len(HashtagAccepted) |->
            [handle |-> AuthorHandle(HashtagAccepted[i]),
             date |-> SightingDate(HashtagAccepted[i], TRUE)]]

\* a <= b of two date strings, read off the first place where they differ
DateLE(a, b) ==
    \/ Len(a) <= Len(b) /\ \A i \in 1..Len(a) : a[i] = b[i]
    \/ \E i \in 1..Len(a) :
          /\ i <= Len(b)
          /\ \A j \in 1..(i - 1) : a[j] = b[j]
          /\ CodePoint(a[i]) < CodePoint(b[i])

SightingsOf(acc, handle) == {i \in DOMAIN acc : acc[i].handle = handle}

\* entry e holds the count and the greatest date of the sightings acc of its
\* handle
EntryCounts(e, acc) ==
    /\ e.post_count = Cardinality(SightingsOf(acc, e.username.v))
    /\ e.post_count >= 1
    /\ \E i \in SightingsOf(acc, e.username.v) : e.last_tagged.v = acc[i].date
    /\ \A i \in SightingsOf(acc, e.username.v) : DateLE(acc[i].date, e.last_tagged.v)

\* C13: the result has at most one entry per author handle; the post_count
\* of an entry is the number of accepted sightings of its handle (at least
\* one) and its last_tagged is the greatest date string among them; every
\* accepted sighting has its entry.
OneEntryPerHandleCounted ==
    TaggedReturned =>
        /\ \A j, k \in 1..Len(ret.v) :
              ret.v[j].username = ret.v[k].username => j = k
        /\ \A acc \in {AcceptedSightings} :
              /\ \A k \in 1..Len(ret.v) : EntryCounts(ret.v[k], acc)
              /\ \A i \in DOMAIN acc :
                    \E k \in 1..Len(ret.v) : ret.v[k].username.v = acc[i].handle

\* sightings of one author on 2024-01-01 then 2024-03-01, after another
\* author's
OneEntryPerHandleCountedWitness ==
    /\ TaggedReturned
    /\ scrape.kind = "searched"
    /\ Len(scrape.items) = 3
    /\ AuthorHandle(scrape.items[1]) = <<"d">>
    /\ AuthorHandle(scrape.items[2]) = <<"c">>
    /\ scrape.items[2].date_elem = StrV(Jan1)
    /\ AuthorHandle(scrape.items[3]) = <<"c">>
    /\ scrape.items[3].date_elem = StrV(Mar1)
    /\ Len(ret.v) = 2
    /\ ret.v[1].username = StrV(<<"c">>)
    /\ ret.v[1].post_count = 2
    /\ ret.v[1].last_tagged = StrV(Mar1)

\* C14: whatever spelling of the handle the run was started with, no entry
\* of the result refers to the target account.
NoEntryForTarget ==
    TaggedReturned =>
        \A k \in 1..Len(ret.v) :
            ToLower(ret.v[k].username.v) # ToLower(TargetHandle)

\* C15: the returned sequence is in non-increasing order of post_count, on
\* every exit path.
SortedByPostCount ==
    TaggedReturned =>
        \A j, k \in 1..Len(ret.v) :
            j < k => ret.v[j].post_count >= ret.v[k].post_count

\* the list was built in another order, and releasing the session raised
SortedByPostCountWitness ==
    /\ TaggedReturned
    /\ scrape.kind = "searched"
    /\ scrape.quit_raises
    /\ TaggedList(scrape, call.username) # ret.v
    /\ Len(ret.v) = 2
    /\ ret.v[1].post_count = 2
    /\ ret.v[2].post_count = 1
    /\ ret.v[2].username = StrV(AuthorHandle(scrape.items[1]))

\* C26: once the search page was opened, the secondary search is issued
\* exactly when the primary search produced no entries, a timeout of the
\* page-ready wait of the primary search included.
SecondaryExactlyWhenPrimaryEmpty ==
    TaggedReturned /\ scrape.kind \in {"wait_timeout", "searched"} =>
        (local.hashtag_search <=> PrimaryAccepted = <<>>)

\* C25: no entry of the result has an empty handle: an item whose author
\* handle cannot be resolved is skipped in either pass.
NoTaggedEntryWithEmptyHandle ==
    TaggedReturned =>
        \A k \in 1..Len(ret.v) : ret.v[k].username.v # <<>>

---------------------------------------------------------------------------
(* Claims about extract_contact_info (under SpecContact).                  *)

ContactReturned == call.fn = "extract_contact_info" /\ ret # Pending

\* the normalized form of a link: scheme, host and path, that is the text
\* before the query string or the fragment
WithoutQuery(u) ==
    LET ends == {i \in 1..Len(u) : u[i] \in {"?", "#"}}
    IN  IF ends = {} THEN u ELSE SubSeq(u, 1, SetMin(ends) - 1)

NormalizedOnce(list) ==
    \A i, j \in 1..Len(list) :
        WithoutQuery(list[i]) = WithoutQuery(list[j]) => i = j

\* C11: neither social_links nor websites of the returned bundle holds two
\* entries with the same normalized form.
NoTwoEntriesSameNormalizedUrl ==
    ContactReturned =>
        /\ NormalizedOnce(ret.social_links)
        /\ NormalizedOnce(ret.websites)

\* a link names a known social platform; a link to the source platform
KnownPlatform(u) ==
    \E w \in SocialWords \ {<<"t", "i", "k", "t", "o", "k">>} :
        Contains(ToLower(u), w)

SelfLink(u) == Contains(ToLower(u), <<"t", "i", "k", "t", "o", "k">>)

\* C27: every link of the returned bundle is in exactly one category:
\* social_links holds only links naming a known social platform, websites
\* only links naming none, and a link to the source platform is in neither.
LinksInOneCategory ==
    ContactReturned =>
        /\ \A u \in Range(ret.social_links) : KnownPlatform(u) /\ ~SelfLink(u)
        /\ \A u \in Range(ret.websites) : ~KnownPlatform(u) /\ ~SelfLink(u)
        /\ Range(ret.social_links) \cap Range(ret.websites) = {}

\* what a description holds that the bundle is to hold: its emails, its
\* phone numbers without blanks and dashes, its websites naming no platform
CaptionFinds(c, field) ==
    CASE field = "emails" -> Range(c.emails)
      [] field = "phone_numbers" -> {CleanedPhone(ph) : ph \in Range(c.phones)}
      [] field = "websites" -> {w \in Range(c.websites) : ~NamesSocial(w)}

\* C29: when the descriptions were read, what they hold is in the returned
\* bundle, whether the bio is empty or not.
CaptionFindsKept ==
    ContactReturned /\ scrape.kind = "parsed" =>
        \A i \in 1..Len(scrape.captions) :
            \A field \in {"emails", "phone_numbers", "websites"} :
                CaptionFinds(scrape.captions[i], field) \subseteq Range(ret[field])

\* C12: every email, phone number, social link and website of the returned
\* bundle is a value validate_data returned during the call.
EveryEntryValidated ==
    ContactReturned =>
        \A field \in {"emails", "phone_numbers", "social_links", "websites"} :
            Range(ret[field]) \subseteq local.validated

---------------------------------------------------------------------------
(* TikTokSayer.analyze_account                                             *)
(*                                                                         *)
(* The run of the analysis thread, one step per extractor.  The calls of   *)
(* the user interface (update_status, the display functions) are taken not *)
(* to raise, but for the keys display_profile_info reads.  local is the    *)
(* sequence of the extractor calls made, each with the way it ended.       *)

\* profile['username'] ... profile['video_count'] of display_profile_info
DisplayedKeys ==
    {"username", "display_name", "follower_count", "following_count", "likes",
     "video_count"}

DisplayProfileRaises(profile) == \E k \in DisplayedKeys : k \notin DOMAIN profile

\* extract_emails on the bundle of extract_contact_info
ValidEmail(email) == validate_data(StrV(email), "email", NoneV, NoneV, NoneV)

ProfileEmail(v) == IF v = NoneV THEN <<>> ELSE v.v

ExtractEmails(contact_info) ==
    [t |-> "emails",
     profile_email |-> IF contact_info.emails = <<>> THEN <<>>
                       ELSE ProfileEmail(ValidEmail(contact_info.emails[1])),
     follower_emails |-> IF contact_info.emails = <<>> THEN <<>>
                         ELSE FoldText(Tail(contact_info.emails), 1,
                                       EmptyContactInfo, "email").emails,
     following_emails |-> <<>>,
     extraction_timestamp |-> Now, data_source |-> "web_scraping"]

\* extract_phone_numbers on the bundle of extract_contact_info
LongEnough(phones) == SelectSeq(phones, LAMBDA ph : Len(CleanedPhone(ph)) >= 7)

ExtractPhoneNumbers(contact_info) ==
    [t |-> "phones",
     profile_phone |-> IF contact_info.phone_numbers # <<>>
                          /\ Len(contact_info.phone_numbers[1]) >= 7
                       THEN CleanedPhone(contact_info.phone_numbers[1]) ELSE <<>>,
     follower_phones |-> IF contact_info.phone_numbers = <<>> THEN <<>>
                         ELSE FoldText(LongEnough(Tail(contact_info.phone_numbers)), 1,
                                       EmptyContactInfo, "phone").phone_numbers,
     following_phones |-> <<>>,
     extraction_timestamp |-> Now, data_source |-> "web_scraping"]

\* what the extractors of a run come to; the first profile is the {} that
\* get_profile_info returns when the page-ready wait of its scrape step
\* timed out
RunProfiles ==
    {ScrapeResult(<<"a", "b">>, [kind |-> "wait_timeout", quit_raises |-> FALSE,
                                 message |-> <<>>]),
     FallbackRecord(<<"a", "b">>, <<>>),
     ApiRecord(<<"a", "b">>, EmptyDict, EmptyDict)}

RunRelationOutcomes ==
    {[kind |-> "get_raises", quit_raises |-> FALSE],
     [kind |-> "link_not_found", quit_raises |-> FALSE,
      profile |-> FallbackRecord(<<"a", "b">>, <<>>)],
     [kind |-> "link_not_found", quit_raises |-> FALSE, profile |-> EmptyDict],
     [kind |-> "parsed", quit_raises |-> FALSE,
      items |-> <<[username_elem |-> StrV(<<"@", "c">>), display_name_elem |-> NoneV,
                   stats |-> <<FollowersStat>>]>>]}

RunContacts ==
    {[emails |-> <<>>, phone_numbers |-> <<>>],
     [emails |-> <<MailA>>, phone_numbers |-> <<CleanedPhone(PhoneSpaced)>>]}

RunTaggedOutcomes ==
    {[kind |-> "wait_timeout", quit_raises |-> FALSE],
     [kind |-> "searched", quit_raises |-> FALSE, today |-> Feb1,
      items |-> <<VideoItem(StrV(<<"c">>), NoneV, StrV(Jan1))>>,
      hashtag |-> [kind |-> "not_run"]]}

\* the check boxes of the window
Options == {"followers", "following", "emails", "phones", "tagged"}

InitRun ==
    /\ call \in {[fn |-> "analyze_account", username |-> u] : u \in {<<"a", "b">>}}
    /\ username = call.username
    /\ selected \in SUBSET Options
    /\ pc = "profile"
    /\ is_running = TRUE
    /\ result_data = EmptyDict
    /\ local = <<>>
    /\ ret = Pending
    /\ api = Pending
    /\ scrape = Pending
    /\ driver = "none"
    /\ profile_data = Pending
    /\ NoNet

Called(fn, kind) == local' = Append(local, [fn |-> fn, kind |-> kind])

\* except Exception / finally: self.is_running = False
RunEnds ==
    /\ pc' = "finished"
    /\ is_running' = FALSE

\* self.result_data[key] = r and the display of r, then the next check box;
\* an exception of the extractor ends the run in the except clause
Stored(key, r, next) ==
    IF r.t = "raise" THEN RunEnds /\ UNCHANGED result_data
    ELSE /\ pc' = next
         /\ result_data' = (key :> r) @@ result_data
         /\ UNCHANGED is_running

NotSelected(next) ==
    /\ pc' = next
    /\ UNCHANGED <<result_data, is_running, local>>

RunFrame == UNCHANGED <<call, ret, username, api, scrape, driver, profile_data,
                        netVars, selected>>

\* 403-418: the profile; the run ends when there is none
AnalyzeProfile ==
    /\ pc = "profile"
    /\ \E profile \in RunProfiles :
          IF profile = EmptyDict THEN RunEnds /\ UNCHANGED result_data
          ELSE IF DisplayProfileRaises(profile)
          THEN RunEnds /\ result_data' = ("profile" :> profile) @@ result_data
          ELSE /\ pc' = "followers"
               /\ result_data' = ("profile" :> profile) @@ result_data
               /\ UNCHANGED is_running
    /\ Called("get_profile_info", "returned")
    /\ RunFrame

\* 421-426
AnalyzeFollowers ==
    /\ pc = "followers"
    /\ IF "followers" \in selected
       THEN \E o \in RunRelationOutcomes :
               /\ Stored("followers", RelationReturn(o), "following")
               /\ Called("get_user_followers", o.kind)
       ELSE NotSelected("following")
    /\ RunFrame

\* 429-434
AnalyzeFollowing ==
    /\ pc = "following"
    /\ IF "following" \in selected
       THEN \E o \in RunRelationOutcomes :
               /\ Stored("following", RelationReturn(o), "emails")
               /\ Called("get_user_following", o.kind)
       ELSE NotSelected("emails")
    /\ RunFrame

\* 437-442
AnalyzeEmails ==
    /\ pc = "emails"
    /\ IF "emails" \in selected
       THEN \E c \in RunContacts :
               /\ Stored("emails", ExtractEmails(c), "phones")
               /\ Called("extract_emails", "returned")
       ELSE NotSelected("phones")
    /\ RunFrame

\* 445-450
AnalyzePhones ==
    /\ pc = "phones"
    /\ IF "phones" \in selected
       THEN \E c \in RunContacts :
               /\ Stored("phones", ExtractPhoneNumbers(c), "tagged")
               /\ Called("extract_phone_numbers", "returned")
       ELSE NotSelected("tagged")
    /\ RunFrame

\* 453-458
AnalyzeTagged ==
    /\ pc = "tagged"
    /\ IF "tagged" \in selected
       THEN \E o \in RunTaggedOutcomes :
               /\ Stored("tagged", ListV(TaggedResult(o, username)), "completed")
               /\ Called("get_tagged_users", o.kind)
       ELSE NotSelected("completed")
    /\ RunFrame

\* 460-467: the status line, and the finally clause
AnalyzeCompleted ==
    /\ pc = "completed"
    /\ RunEnds
    /\ UNCHANGED <<result_data, local>>
    /\ RunFrame

NextRun ==
    \/ AnalyzeProfile
    \/ AnalyzeFollowers
    \/ AnalyzeFollowing
    \/ AnalyzeEmails
    \/ AnalyzePhones
    \/ AnalyzeTagged
    \/ AnalyzeCompleted

SpecRun == InitRun /\ [][NextRun]_vars

---------------------------------------------------------------------------
(* Claims about analyze_account (under SpecRun).                           *)

\* the check box and the extractor of each step, in the order of the run
StepOrder == <<"followers", "following", "emails", "phones", "tagged">>

StepCall ==
    <<"get_user_followers", "get_user_following", "extract_emails",
      "extract_phone_numbers", "get_tagged_users">>

\* call i of the run was a relationship extractor that did not find the
\* control opening its list
ControlNotFound(i) ==
    /\ local[i].fn \in {"get_user_followers", "get_user_following"}
    /\ local[i].kind = "link_not_found"

\* C16: when the control opening the followers (following) list is not
\* found, the extractor returns an empty sequence without raising and the
\* run goes on: at its end every selected extractor after that one was
\* called.
RunGoesOnWhenControlNotFound ==
    \A i \in 1..Len(local) :
        ControlNotFound(i) =>
            \E s \in 1..2 :
                /\ StepCall[s] = local[i].fn
                /\ StepOrder[s] \in DOMAIN result_data
                /\ result_data[StepOrder[s]] = ListV(<<>>)
                /\ pc = "finished" =>
                      \A n \in (s + 1)..5 :
                          StepOrder[n] \in selected =>
                              \E j \in (i + 1)..Len(local) : local[j].fn = StepCall[n]

RunGoesOnWhenControlNotFoundWitness ==
    /\ pc = "finished"
    /\ selected = Options
    /\ Len(local) = 6
    /\ ControlNotFound(2)
    /\ ControlNotFound(3)
    /\ result_data["followers"] = ListV(<<>>)
    /\ local[6].fn = "get_tagged_users"

\* C21: a failure inside an extractor never stops the run: when the run
\* has ended, every selected extractor was invoked.
RunNeverStopped ==
    pc = "finished" =>
        \A n \in 1..5 :
            StepOrder[n] \in selected =>
                \E j \in 1..Len(local) : local[j].fn = StepCall[n]

---------------------------------------------------------------------------
(* TikTokSayer.start_analysis and the analysis threads                     *)
(*                                                                         *)
(* start_analysis runs in the event loop of the window, analyze_account in *)
(* a thread of its own; is_running and result_data are shared without a    *)
(* lock.  A thread is followed through the places where it writes them:    *)
(* "profile" (before line 411), "extractors" (421-458), "early_return"     *)
(* (after line 414, before the finally clause), "finally" (before line     *)
(* 467), "done".  threads is the sequence of the threads started.          *)

MaxThreads == 3

\* target_username.get() when the button is pressed
EntryTexts == {<<>>, <<" ">>, <<" ", "a", "b">>}

InitWindow ==
    /\ call = [fn |-> "start_analysis"]
    /\ ret = Pending
    /\ username = <<>>
    /\ pc = "idle"
    /\ api = Pending
    /\ scrape = Pending
    /\ driver = "none"
    /\ profile_data = Pending
    /\ local = Pending
    /\ selected = {}
    /\ result_data = EmptyDict
    /\ is_running = FALSE
    /\ clock = 0
    /\ limiter = Pending
    /\ issued = <<>>
    /\ threads = <<>>

WindowFrame == UNCHANGED <<call, pc, api, scrape, driver, profile_data, local,
                           selected, clock, limiter, issued>>

\* 367-384: the button; ret is the dialog shown, or "started"
StartAnalysis ==
    /\ Len(threads) < MaxThreads
    /\ \E text \in EntryTexts :
          /\ username' = text
          /\ IF Strip(text) = <<>>
             THEN /\ ret' = StrV(<<"showerror">>)
                  /\ UNCHANGED <<is_running, result_data, threads>>
             ELSE IF is_running
             THEN /\ ret' = StrV(<<"showinfo">>)
                  /\ UNCHANGED <<is_running, result_data, threads>>
             ELSE /\ ret' = StrV(<<"started">>)
                  /\ result_data' = EmptyDict
                  /\ is_running' = TRUE
                  /\ threads' = Append(threads, [pc |-> "profile"])
    /\ WindowFrame

At(i, place) == i \in 1..Len(threads) /\ threads[i].pc = place

Goes(i, place) == threads' = [threads EXCEPT ![i].pc = place]

\* 403-418: no profile (is_running cleared at line 414, then return), an
\* exception, or the profile stored
ThreadProfile(i) ==
    /\ At(i, "profile")
    /\ \/ /\ Goes(i, "early_return")
          /\ is_running' = FALSE
          /\ UNCHANGED result_data
       \/ /\ Goes(i, "finally")
          /\ UNCHANGED <<is_running, result_data>>
       \/ /\ Goes(i, "extractors")
          /\ result_data' = ("profile" :> i) @@ result_data
          /\ UNCHANGED is_running
    /\ UNCHANGED <<ret, username>>
    /\ WindowFrame

\* 421-458: the selected extractors, their results stored
ThreadExtractors(i) ==
    /\ At(i, "extractors")
    /\ Goes(i, "finally")
    /\ result_data' = ("tagged" :> i) @@ result_data
    /\ UNCHANGED <<ret, username, is_running>>
    /\ WindowFrame

\* 466-467: finally: self.is_running = False
ThreadFinally(i) ==
    /\ At(i, "early_return") \/ At(i, "finally")
    /\ Goes(i, "done")
    /\ is_running' = FALSE
    /\ UNCHANGED <<ret, username, result_data>>
    /\ WindowFrame

NextWindow ==
    \/ StartAnalysis
    \/ \E i \in 1..MaxThreads : ThreadProfile(i)
    \/ \E i \in 1..MaxThreads : ThreadExtractors(i)
    \/ \E i \in 1..MaxThreads : ThreadFinally(i)

SpecWindow == InitWindow /\ [][NextWindow]_vars

---------------------------------------------------------------------------
(* Claims about start_analysis (under SpecWindow).                         *)

\* the threads whose analysis is under way
Analysing == {i \in 1..Len(threads) : threads[i].pc \in {"profile", "extractors"}}

\* C30: at most one analysis runs at a time, and the results in
\* result_data are those of the thread started last.
AtMostOneAnalysis ==
    /\ Cardinality(Analysing) <= 1
    /\ \A k \in DOMAIN result_data : result_data[k] = Len(threads)

---------------------------------------------------------------------------
(* The selector lists of get_user_followers and get_tagged_users           *)
(*                                                                         *)
(* Five loops try a list of three selectors in order: the followers        *)
(* control (871-881), the hashtag page-ready wait (1461-1468), and per     *)
(* item of the hashtag results the author handle (1517-1523), the display  *)
(* name (1540-1545) and the post date (1554-1558).  call.results is what   *)
(* the page gives for each selector: NoneV where the wait times out or     *)
(* select_one finds nothing, else the element's text.  ret is the value    *)
(* the loop leaves and the number of selectors it consulted.               *)

NumSelectors == 3

SelectorLists ==
    {"followers_link", "page_ready", "username_elem", "display_name_elem",
     "date_elem"}

ElementTexts == {NoneV, StrV(<<" ">>), StrV(<<"@", "x", " ">>), StrV(<<"y">>)}

\* followers_link / the wait returning; elem and elem.text.strip()
SelectorHit(list, r) ==
    IF list \in {"followers_link", "page_ready"}
    THEN r # NoneV
    ELSE r # NoneV /\ Strip(r.v) # <<>>

SelectorValue(list, r) ==
    CASE list \in {"followers_link", "page_ready"} -> r
      [] list = "username_elem" -> StrV(Remove(Strip(r.v), "@"))
      [] OTHER -> StrV(Strip(r.v))

\* followers_link = None; tagger_username = ""; display_name =
\* tagger_username; post_date = datetime.now().strftime("%Y-%m-%d")
SelectorDefault(list, c) ==
    CASE list \in {"followers_link", "page_ready"} -> NoneV
      [] list = "username_elem" -> StrV(<<>>)
      [] list = "display_name_elem" -> StrV(c.tagger_username)
      [] OTHER -> StrV(c.today)

\* the loops that leave at their first success; the loop of the date
\* selectors (1554-1558) has no break
SelectorBreaks(list) == list # "date_elem"

RECURSIVE TrySelectors(_, _, _, _, _)
TrySelectors(list, results, i, value, consulted) ==
    IF i > Len(results) THEN [value |-> value, consulted |-> consulted]
    ELSE IF SelectorHit(list, results[i])
    THEN IF SelectorBreaks(list)
         THEN [value |-> SelectorValue(list, results[i]), consulted |-> i]
         ELSE TrySelectors(list, results, i + 1,
                           SelectorValue(list, results[i]), i)
    ELSE TrySelectors(list, results, i + 1, value, i)

InitSelectors ==
    /\ call \in {[fn |-> "selectors", list |-> l, results |-> r,
                  tagger_username |-> <<"x">>, today |-> Feb1] :
                    l \in SelectorLists,
                    r \in [1..NumSelectors -> ElementTexts]}
    /\ ret = Pending
    /\ NoRun
    /\ NoNet

SelectorLoop ==
    /\ ret = Pending
    /\ ret' = TrySelectors(call.list, call.results, 1,
                           SelectorDefault(call.list, call), 0)
    /\ UNCHANGED <<call, username, api, scrape, pc, driver, profile_data,
                   local, netVars, runVars>>

NextSelectors == SelectorLoop

SpecSelectors == InitSelectors /\ [][NextSelectors]_vars

---------------------------------------------------------------------------
(* Claims about the selector lists (under SpecSelectors).                  *)

SelectorsReturned == call.fn = "selectors" /\ ret # Pending

SelectorHits == {i \in 1..NumSelectors : SelectorHit(call.list, call.results[i])}

\* C22: the value used is the match of the earliest selector in list order
\* that gives non-empty content, no selector after it is consulted, and the
\* default is used when every selector fails.
EarliestSelectorUsed ==
    SelectorsReturned =>
        IF SelectorHits = {}
        THEN ret.value = SelectorDefault(call.list, call)
        ELSE \E i \in SelectorHits :
                /\ \A k \in SelectorHits : i <= k
                /\ ret.value = SelectorValue(call.list, call.results[i])
                /\ ret.consulted = i

---------------------------------------------------------------------------
(* The scroll loops of the extractors                                      *)
(*                                                                         *)
(* get_user_followers (898-900) and get_user_following (1003-1005) scroll  *)
(* five times, extract_contact_info (1231-1233) and the primary pass of    *)
(* get_tagged_users (1390-1392) three times; the hashtag pass (1471-1486)  *)
(* scrolls while scroll_attempts < max_scroll_attempts and leaves when the *)
(* height of the page has not changed.  One step is one turn of a loop;    *)
(* the height the page has after a scroll is any of Heights.  local holds  *)
(* the turns taken (scrolls), scroll_attempts and last_height, and whether *)
(* the loop was left by its break (unchanged).                             *)

MaxHeight == 3
MaxScrolls == 6

Heights == 1..MaxHeight

ScrollLoops == {"followers", "following", "contact", "primary", "hashtag"}

max_scroll_attempts == 3

\* range(5), range(3)
ScrollRange(loop) ==
    CASE loop \in {"followers", "following"} -> 5
      [] loop \in {"contact", "primary"} -> 3

\* for _ in range(n) / while scroll_attempts < max_scroll_attempts
ScrollGoesOn(loop, l) ==
    IF loop = "hashtag" THEN l.scroll_attempts < max_scroll_attempts
    ELSE l.scrolls < ScrollRange(loop)

\* Attempted without the increment of scroll_attempts
AttemptsStatic(l, new_height) ==
    [l EXCEPT !.scrolls = @ + 1, !.last_height = new_height]

\* the hashtag loop with a changed height: last_height = new_height;
\* scroll_attempts += 1
Attempted(l, new_height) ==
    [l EXCEPT !.scrolls = @ + 1, !.last_height = new_height,
              !.scroll_attempts = @ + 1]

InitScroll ==
    /\ call \in {[fn |-> "scroll", loop |-> loop] : loop \in ScrollLoops}
    /\ pc = "scroll"
    /\ local \in {[scrolls |-> 0, scroll_attempts |-> 0, last_height |-> h,
                   unchanged |-> FALSE] : h \in Heights}
    /\ ret = Pending
    /\ username = <<>>
    /\ api = Pending
    /\ scrape = Pending
    /\ driver = "open"
    /\ profile_data = Pending
    /\ selected = {}
    /\ result_data = Pending
    /\ is_running = FALSE
    /\ NoNet

ScrollFrame == UNCHANGED <<call, ret, username, api, scrape, driver,
                           profile_data, netVars, runVars>>

\* one turn: scrollTo, sleep, and in the hashtag loop the height test
ScrollStep ==
    /\ pc = "scroll"
    /\ ScrollGoesOn(call.loop, local)
    /\ local.scrolls < MaxScrolls
    /\ \E new_height \in Heights :
          IF call.loop # "hashtag"
          THEN /\ local' = [local EXCEPT !.scrolls = @ + 1,
                                         !.last_height = new_height]
               /\ pc' = "scroll"
          ELSE IF new_height = local.last_height
          THEN /\ local' = [local EXCEPT !.scrolls = @ + 1,
                                         !.unchanged = TRUE]
               /\ pc' = "extract"
          ELSE /\ local' = Attempted(local, new_height)
               /\ pc' = "scroll"
    /\ ScrollFrame

\* the loop is exhausted
ScrollExhausted ==
    /\ pc = "scroll"
    /\ ~ScrollGoesOn(call.loop, local)
    /\ pc' = "extract"
    /\ UNCHANGED local
    /\ ScrollFrame

\* execute_script raises: the extractor's except clause takes over
ScrollRaises ==
    /\ pc = "scroll"
    /\ ScrollGoesOn(call.loop, local)
    /\ pc' = "except"
    /\ UNCHANGED local
    /\ ScrollFrame

NextScroll == ScrollStep \/ ScrollExhausted \/ ScrollRaises

SpecScroll == InitScroll /\ [][NextScroll]_vars

\* each script call and each sleep returns or raises, and the thread of
\* the extractor goes on to its next statement
SpecScrollFair == SpecScroll /\ WF_vars(NextScroll)

---------------------------------------------------------------------------
(* Claims about the scroll loops (under SpecScrollFair).                   *)

ScrollLeft ==
    /\ call.fn = "scroll"
    /\ pc \in {"extract", "except"}
    /\ local.scrolls <= (IF call.loop \in {"followers", "following"}
                         THEN 5 ELSE 3)
    /\ (call.loop = "hashtag" /\ pc = "extract" /\ local.scrolls < 3)
          => local.unchanged

\* C28: every scroll loop is left, whatever heights the page reports,
\* after at most 5 turns (relationship lists) or 3 turns (contact captions,
\* each tagged pass), the hashtag loop before that only when a scroll left
\* the height unchanged.
ScrollLoopsTerminate == <>[]ScrollLeft

\* the hashtag loop run to its third turn on a page that changed height
\* at every scroll
ScrollLoopsTerminateWitness ==
    /\ call.fn = "scroll" /\ call.loop = "hashtag"
    /\ pc = "extract"
    /\ local.scrolls = 3
    /\ local.scroll_attempts = 3
    /\ ~local.unchanged

===========================================================================
